---- MODULE Spec2Model ----
(***************************************************************************)
(* gke-image-cache-builder: the workflow orchestrator (pkg/builder) and    *)
(* the embedded shell workflow (internal/scripts/setup-and-verify.sh).     *)
(*                                                                         *)
(* Two state machines share this module.                                   *)
(*   Spec        the Go side: Workflow.Execute, the cleanup goroutine that *)
(*               scheduleCleanup starts, and the exit of the CLI process.  *)
(*   SpecScript  the shell side: one bash process at a time running the    *)
(*               prepare-disk, pull-images or verify-image mode against a  *)
(*               disk and a container runtime that outlive the process.    *)
(***************************************************************************)
EXTENDS Integers, Sequences, FiniteSets, TLC

VARIABLES
    \* ---- orchestrator (Go) ----
    mode,          \* config.Mode: "local" or "remote"
    pc,            \* position of Workflow.Execute
    result,        \* what Execute returned: "running", "nil" or the annotated error
    failedStep,    \* the call that returned the error Execute wrapped ("none")
    resources,     \* the *WorkflowResources of Execute, as handed to scheduleCleanup
    cloudDisk,     \* the working disk in the cloud: "absent", "present", "deleted"
    cloudVM,       \* the temporary VM in the cloud: "absent", "present", "deleted"
    attached,      \* the working disk is attached to an instance
    requests,      \* [CreateDisk, CreateVM, AttachDisk, CreateImage |-> times Execute asked the API for it]
    imageCreated,  \* CreateImage has produced the image artifact
    scheduled,     \* number of scheduleCleanup calls
    delay,         \* the delay given to the last scheduleCleanup, in minutes
    cleanupPc,     \* position of the goroutine started by scheduleCleanup
    cleanupRuns,   \* number of cleanupResources invocations
    deleteCalls,   \* [vm, disk, detach |-> number of DeleteVM / DeleteDisk / DetachDisk calls made by cleanupResources,
                   \*  dead |-> how many of them were made with a context that was done]
    cleanupErrors, \* number of errors cleanupResources has logged or dropped
    exited,        \* the CLI process: "running", "exit0", "exit1"
    \* ---- environment of the script ----
    arithErrexit,  \* /bin/bash applies set -e to a (( )) command (bash 4.1 and later)
    images,        \* the image list given to pull-images
    badImage,      \* index of the first image the registry refuses (0: none)
    rtCommitted,   \* the runtime's committed snapshots are 1..rtCommitted
    \* ---- what outlives a script process ----
    mounted,       \* the disk is mounted at MOUNT_POINT
    fs,            \* the files on the disk (seen below MOUNT_POINT while it is mounted)
    \* ---- the running script process ----
    spc,           \* position of the bash process ("idle": none is running)
    smode,         \* its mode argument
    sauth,         \* OAUTH_MECHANISM
    sstore,        \* STORE_SNAPSHOT_CHECKSUMS = "true"
    current,       \* local current (pull_images, then process_snapshots)
    snapshots,     \* local snapshots array of process_snapshots
    retries,       \* local retries
    attempts,      \* view attempts made for the snapshot in hand
    pullLog,       \* pulls this process ran: <<index, succeeded>>
    exitStatus,    \* exit status of the last process: "none", "0", "1"
    failPoint,     \* the command at which the last process ended ("none": it completed)
    marker,        \* the last process echoed "Unpacking is completed."
    vVerified,     \* verify_disk_image: chain ids logged "Verification passed"
    vMismatched,   \* verify_disk_image: chain ids logged "Verification failed"
    prev,          \* <<mode, exit status>> of the process before the last one
    pulls,         \* pull-images processes started so far
    corruptions,   \* files changed on the disk behind the script's back
    \* ---- inputs and results of the script's pure computations ----
    copies,        \* two copies of a directory tree: [tree, order, sum]
    image,         \* an image reference given to pull_images, character by character
    mechanism,     \* OAUTH_MECHANISM after setup_authentication
    pulled,        \* the ctr image pull command line pull_images ran for the reference
    part1,         \* what /dev/disk/by-id/google-<name>-part1 is
    whole,         \* what /dev/disk/by-id/google-<name> is
    resolved,      \* DEVICE_NODE as each call of the device resolution left it
    \* ---- remote mode: the waits of the orchestrator and the VM it waits for ----
    ctxDone,       \* the deadline of the workflow context has expired
    timerDone,     \* the timer of the wait in progress has expired
    tick,          \* the ticker of the wait in progress has a tick ready
    poll,          \* the polls of the wait in progress: how many, how many failed, the last
    waitResult,    \* what waitForRemoteEnvironment returned
    vmpc,          \* where the startup script of the VM is
    console        \* the markers in the VM's serial console output

wfVars == <<mode, pc, result, failedStep, resources, cloudDisk, cloudVM, attached, requests,
            imageCreated, scheduled, delay, cleanupPc, cleanupRuns, deleteCalls,
            cleanupErrors, exited>>

scriptVars == <<arithErrexit, images, badImage, rtCommitted, mounted, fs, spc, smode,
                sauth, sstore, current, snapshots, retries, attempts, pullLog,
                exitStatus, failPoint, marker, vVerified, vMismatched, prev, pulls,
                corruptions>>

\* scriptVars without the record of which script processes ran.
scriptRest == <<arithErrexit, images, badImage, rtCommitted, mounted, fs, spc, sauth,
                sstore, current, snapshots, retries, attempts, pullLog, failPoint,
                marker, vVerified, vMismatched, pulls, corruptions>>

\* Inputs and results of pull_images' reference handling and of the device resolution.
fnVars == <<image, mechanism, pulled, part1, whole, resolved>>

pureVars == <<copies, fnVars>>

remoteVars == <<ctxDone, timerDone, tick, poll, waitResult, vmpc, console>>

vars == <<wfVars, scriptVars, pureVars, remoteVars>>

----------------------------------------------------------------------------
(* Workflow.Execute                                                        *)

IsLocalMode == mode = "local"

IsRemoteMode == mode = "remote"

\* A *WorkflowResources: the nil pointer, or a struct whose two fields are set or nil.
NilResources == [ptr |-> "nil", CacheDisk |-> FALSE, VMInstance |-> FALSE]

NewResources(disk, vm) == [ptr |-> "set", CacheDisk |-> disk, VMInstance |-> vm]

\* The step name fmt.Errorf puts in front of the wrapped error.
StepOf(call) ==
    CASE call = "validatePrerequisites"      -> "prerequisite validation failed"
      [] call = "handleExistingImages"       -> "existing images handling failed"
      [] call \in {"CreateDisk", "CreateVM", "AttachDisk", "GetCurrentInstanceMetadata"}
                                              -> "environment setup failed"
      [] call \in {"executeLocal.GetCurrentInstanceMetadata", "GetAttachedDiskDevicePath",
                   "ProcessImagesWithScriptAndDevice", "executeLocal.DetachDisk"}
                                              -> "local mode execution failed"
      [] call \in {"waitForRemoteEnvironment", "executeRemoteImageProcessing",
                   "executeRemote.DetachDisk"}
                                              -> "remote mode execution failed"
      [] call = "createCacheImage"           -> "cache image creation failed"
      [] call = "verifyCacheImage"           -> "cache image verification failed"
      [] OTHER                               -> "nil"

\* 5*time.Minute, in minutes: the delay of every scheduleCleanup call of Execute.
GraceDelay == 5

\* go func() { ...; time.Sleep(delay); if resources != nil { cleanupResources } }()
scheduleCleanup(res, d) ==
    /\ scheduled' = scheduled + 1
    /\ delay' = d
    /\ resources' = res
    /\ cleanupPc' = "sleeping"

\* if err != nil { w.scheduleCleanup(ctx, res, ...); return fmt.Errorf("<step>: %w", err) }
FailStep(call, res) ==
    /\ pc' = "returned"
    /\ result' = StepOf(call)
    /\ failedStep' = call
    /\ scheduleCleanup(res, GraceDelay)

Continue(next) ==
    /\ pc' = next
    /\ UNCHANGED <<result, failedStep, resources, scheduled, delay, cleanupPc>>

cloudUnchanged == UNCHANGED <<cloudDisk, cloudVM, attached, imageCreated, requests>>

\* One more request of the given kind reaches the API.
Request(kind) == requests' = [requests EXCEPT ![kind] = @ + 1]

goroutineUnchanged == UNCHANGED <<cleanupRuns, deleteCalls, cleanupErrors>>

\* A validation that runs only after the disk was asked for.
validatePrerequisitesAfterCreateDisk ==
    /\ pc = "validatePrerequisites"
    /\ \E ok \in BOOLEAN :
         IF ok THEN /\ Continue(IF IsLocalMode THEN "handleExistingImages" ELSE "CreateDisk")
                    /\ cloudDisk' = cloudDisk
               ELSE /\ FailStep("validatePrerequisites", NilResources)
                    /\ cloudDisk' = "present"
    /\ UNCHANGED <<cloudVM, attached, imageCreated, requests>>
    /\ goroutineUnchanged
    /\ UNCHANGED <<mode, exited>>
    /\ UNCHANGED scriptVars
    /\ UNCHANGED <<pureVars, remoteVars>>

\* Execute, step 1: on error scheduleCleanup(ctx, nil, ...) and return.
validatePrerequisites ==
    /\ pc = "validatePrerequisites"
    /\ \E ok \in BOOLEAN :
         IF ok THEN Continue(IF IsLocalMode THEN "handleExistingImages" ELSE "CreateDisk")
               ELSE FailStep("validatePrerequisites", NilResources)
    /\ cloudUnchanged /\ goroutineUnchanged
    /\ UNCHANGED <<mode, exited>>
    /\ UNCHANGED scriptVars
    /\ UNCHANGED <<pureVars, remoteVars>>

\* CheckExistingImages and promptUserAction return no error and ActionMerge, and
\* CleanExistingImages returns nil: the call cannot fail.
handleExistingImages ==
    /\ pc = "handleExistingImages"
    /\ Continue("CreateDisk")
    /\ cloudUnchanged /\ goroutineUnchanged
    /\ UNCHANGED <<mode, exited>>
    /\ UNCHANGED scriptVars
    /\ UNCHANGED <<pureVars, remoteVars>>

\* A CreateDisk that is asked for a second time when the first request failed.
CreateDiskRetried ==
    /\ pc = "CreateDisk"
    /\ \E ok \in BOOLEAN :
         IF ok THEN /\ cloudDisk' = "present"
                    /\ Continue(IF IsRemoteMode THEN "CreateVM" ELSE "GetCurrentInstanceMetadata")
               ELSE /\ cloudDisk' = cloudDisk
                    /\ IF requests.CreateDisk = 0
                         THEN Continue("CreateDisk")
                         ELSE FailStep("CreateDisk", NilResources)
    /\ Request("CreateDisk")
    /\ UNCHANGED <<cloudVM, attached, imageCreated>>
    /\ goroutineUnchanged
    /\ UNCHANGED <<mode, exited>>
    /\ UNCHANGED scriptVars
    /\ UNCHANGED <<pureVars, remoteVars>>

\* setupEnvironment, first call: diskManager.CreateDisk.  Every error return of
\* setupEnvironment is "return nil, err": Execute hands nil to scheduleCleanup.
CreateDisk ==
    /\ pc = "CreateDisk"
    /\ \E ok \in BOOLEAN :
         IF ok THEN /\ cloudDisk' = "present"
                    /\ Continue(IF IsRemoteMode THEN "CreateVM" ELSE "GetCurrentInstanceMetadata")
               ELSE /\ cloudDisk' = cloudDisk
                    /\ FailStep("CreateDisk", NilResources)
    /\ Request("CreateDisk")
    /\ UNCHANGED <<cloudVM, attached, imageCreated>>
    /\ goroutineUnchanged
    /\ UNCHANGED <<mode, exited>>
    /\ UNCHANGED scriptVars
    /\ UNCHANGED <<pureVars, remoteVars>>

CreateVM ==
    /\ pc = "CreateVM"
    /\ \E ok \in BOOLEAN :
         IF ok THEN /\ cloudVM' = "present"
                    /\ Continue("AttachDisk")
               ELSE /\ cloudVM' = cloudVM
                    /\ FailStep("CreateVM", NilResources)
    /\ Request("CreateVM")
    /\ UNCHANGED <<cloudDisk, attached, imageCreated>>
    /\ goroutineUnchanged
    /\ UNCHANGED <<mode, exited>>
    /\ UNCHANGED scriptVars
    /\ UNCHANGED <<pureVars, remoteVars>>

GetCurrentInstanceMetadata ==
    /\ pc = "GetCurrentInstanceMetadata"
    /\ \E ok \in BOOLEAN :
         IF ok THEN Continue("AttachDisk")
               ELSE FailStep("GetCurrentInstanceMetadata", NilResources)
    /\ cloudUnchanged /\ goroutineUnchanged
    /\ UNCHANGED <<mode, exited>>
    /\ UNCHANGED scriptVars
    /\ UNCHANGED <<pureVars, remoteVars>>

\* On success setupEnvironment returns resources with CacheDisk set, and
\* VMInstance set in remote mode only.
AttachDisk ==
    /\ pc = "AttachDisk"
    /\ \E ok \in BOOLEAN :
         IF ok THEN /\ attached' = TRUE
                    /\ pc' = IF IsLocalMode THEN "executeLocalMode" ELSE "executeRemoteMode"
                    /\ resources' = NewResources(TRUE, IsRemoteMode)
                    /\ UNCHANGED <<result, failedStep, scheduled, delay, cleanupPc>>
               ELSE /\ attached' = attached
                    /\ FailStep("AttachDisk", NilResources)
    /\ Request("AttachDisk")
    /\ UNCHANGED <<cloudDisk, cloudVM, imageCreated>>
    /\ goroutineUnchanged
    /\ UNCHANGED <<mode, exited>>
    /\ UNCHANGED scriptVars
    /\ UNCHANGED <<pureVars, remoteVars>>

\* The orchestrator starts the script in a mode and gets its exit status back.
ScriptRan(before, m, status) ==
    /\ prev' = before
    /\ smode' = m
    /\ exitStatus' = status
    /\ UNCHANGED scriptRest

\* executeLocalMode up to the script: metadata, device path, the script run.
\* ProcessImagesWithScriptAndDevice is not among the sources; like
\* ProcessImagesWithScript it is taken to start the script in its full-workflow
\* mode (prepare_disk_operations, then pull_and_process_images).
executeLocalMode ==
    /\ pc = "executeLocalMode"
    /\ \E out \in {"ok", "executeLocal.GetCurrentInstanceMetadata",
                   "GetAttachedDiskDevicePath", "ProcessImagesWithScriptAndDevice"} :
         /\ IF out = "ok" THEN Continue("executeLocal.DetachDisk")
                          ELSE FailStep(out, resources)
         /\ CASE out = "ok" -> ScriptRan(prev, "full-workflow", "0")
              [] out = "ProcessImagesWithScriptAndDevice"
                             -> ScriptRan(prev, "full-workflow", "1")
              [] OTHER       -> UNCHANGED scriptVars
    /\ cloudUnchanged /\ goroutineUnchanged
    /\ UNCHANGED <<mode, exited>>
    /\ UNCHANGED <<pureVars, remoteVars>>

\* executeRemoteMode up to the detach: the readiness wait, then the remote command
\* "prepare-disk ... && pull-images ... && echo 'Unpacking is completed.'".
executeRemoteMode ==
    /\ pc = "executeRemoteMode"
    /\ \E out \in {"ok", "waitForRemoteEnvironment", "executeRemoteImageProcessing"} :
         /\ IF out = "ok" THEN Continue("executeRemote.DetachDisk")
                          ELSE FailStep(out, resources)
         /\ CASE out = "ok" -> ScriptRan(<<"prepare-disk", "0">>, "pull-images", "0")
              [] out = "executeRemoteImageProcessing" ->
                     \/ ScriptRan(prev, "prepare-disk", "1")
                     \/ ScriptRan(<<"prepare-disk", "0">>, "pull-images", "1")
              [] OTHER       -> UNCHANGED scriptVars
    /\ cloudUnchanged /\ goroutineUnchanged
    /\ UNCHANGED <<mode, exited>>
    /\ UNCHANGED <<pureVars, remoteVars>>

\* A DetachDisk whose error is logged and not returned.
DetachDiskErrorIgnored ==
    /\ pc \in {"executeLocal.DetachDisk", "executeRemote.DetachDisk"}
    /\ \E ok \in BOOLEAN :
         /\ attached' = IF ok THEN FALSE ELSE attached
         /\ Continue("createCacheImage")
    /\ UNCHANGED <<cloudDisk, cloudVM, imageCreated, requests>>
    /\ goroutineUnchanged
    /\ UNCHANGED <<mode, exited>>
    /\ UNCHANGED scriptVars
    /\ UNCHANGED <<pureVars, remoteVars>>

\* The DetachDisk that ends executeLocalMode / executeRemoteMode.
DetachDisk ==
    /\ pc \in {"executeLocal.DetachDisk", "executeRemote.DetachDisk"}
    /\ \E ok \in BOOLEAN :
         IF ok THEN /\ attached' = FALSE
                    /\ Continue("createCacheImage")
               ELSE /\ attached' = attached
                    /\ FailStep(pc, resources)
    /\ UNCHANGED <<cloudDisk, cloudVM, imageCreated, requests>>
    /\ goroutineUnchanged
    /\ UNCHANGED <<mode, exited>>
    /\ UNCHANGED scriptVars
    /\ UNCHANGED <<pureVars, remoteVars>>

createCacheImage ==
    /\ pc = "createCacheImage"
    /\ \E ok \in BOOLEAN :
         IF ok THEN /\ imageCreated' = TRUE
                    /\ Continue("verifyCacheImage")
               ELSE /\ imageCreated' = imageCreated
                    /\ FailStep("createCacheImage", resources)
    /\ Request("CreateImage")
    /\ UNCHANGED <<cloudDisk, cloudVM, attached>>
    /\ goroutineUnchanged
    /\ UNCHANGED <<mode, exited>>
    /\ UNCHANGED scriptVars
    /\ UNCHANGED <<pureVars, remoteVars>>

\* verifyCacheImage -> disk.Manager.VerifyImage: GetImage succeeds and the image's
\* Status is READY.  Nothing is mounted and no checksum is read.
verifyCacheImage ==
    /\ pc = "verifyCacheImage"
    /\ \E out \in {"READY", "notReady", "getImageError"} :
         IF out = "READY" THEN Continue("success")
                          ELSE FailStep("verifyCacheImage", resources)
    /\ cloudUnchanged /\ goroutineUnchanged
    /\ UNCHANGED <<mode, exited>>
    /\ UNCHANGED scriptVars
    /\ UNCHANGED <<pureVars, remoteVars>>

\* Step 7: w.scheduleCleanup(ctx, resources, 5*time.Minute); return nil
executeSuccess ==
    /\ pc = "success"
    /\ pc' = "returned"
    /\ result' = "nil"
    /\ scheduleCleanup(resources, GraceDelay)
    /\ UNCHANGED failedStep
    /\ cloudUnchanged /\ goroutineUnchanged
    /\ UNCHANGED <<mode, exited>>
    /\ UNCHANGED scriptVars
    /\ UNCHANGED <<pureVars, remoteVars>>

----------------------------------------------------------------------------
(* The goroutine of scheduleCleanup and cleanupResources                   *)

\* A cleanup that is handed the context of Execute.
cleanupCtxOfExecute == ctxDone

\* cleanupCtx := context.Background(): the context cleanupResources passes to its
\* calls is never done.
cleanupCtxDone == FALSE

\* A call made with ctx: counted, and counted as dead when ctx is done.
CleanupCall(calls, which) ==
    [calls EXCEPT ![which] = @ + 1, !.dead = @ + (IF cleanupCtxDone THEN 1 ELSE 0)]

\* time.Sleep(delay) returns; cleanupResources is entered only for non-nil resources.
cleanupWake ==
    /\ exited = "running"
    /\ cleanupPc = "sleeping"
    /\ IF resources.ptr = "nil"
         THEN /\ cleanupPc' = "done"
              /\ UNCHANGED cleanupRuns
         ELSE /\ cleanupPc' = "DeleteVM"
              /\ cleanupRuns' = cleanupRuns + 1
    /\ UNCHANGED <<mode, pc, result, failedStep, resources, scheduled, delay, deleteCalls,
                   cleanupErrors, exited>>
    /\ cloudUnchanged
    /\ UNCHANGED scriptVars
    /\ UNCHANGED <<pureVars, remoteVars>>

\* A cleanupResources that returns when DeleteVM fails.
cleanupDeleteVMReturnsOnError ==
    /\ exited = "running"
    /\ cleanupPc = "DeleteVM"
    /\ IF resources.VMInstance
         THEN /\ deleteCalls' = CleanupCall(deleteCalls, "vm")
              /\ \E ok \in BOOLEAN :
                   /\ cleanupCtxDone => ~ok
                   /\ IF ok THEN /\ cloudVM' = "deleted"
                                 /\ UNCHANGED cleanupErrors
                            ELSE /\ cloudVM' = cloudVM
                                 /\ cleanupErrors' = cleanupErrors + 1
                   /\ cleanupPc' = IF ok THEN "DetachDisk" ELSE "done"
         ELSE /\ UNCHANGED <<deleteCalls, cloudVM, cleanupErrors>>
              /\ cleanupPc' = "DetachDisk"
    /\ UNCHANGED <<mode, pc, result, failedStep, resources, scheduled, delay, cleanupRuns,
                   exited, cloudDisk, attached, imageCreated>>
    /\ UNCHANGED requests
    /\ UNCHANGED scriptVars
    /\ UNCHANGED <<pureVars, remoteVars>>

\* if resources.VMInstance != nil { DeleteVM; on error Warnf }
cleanupDeleteVM ==
    /\ exited = "running"
    /\ cleanupPc = "DeleteVM"
    /\ cleanupPc' = "DetachDisk"
    /\ IF resources.VMInstance
         THEN /\ deleteCalls' = CleanupCall(deleteCalls, "vm")
              /\ \E ok \in BOOLEAN :
                   /\ cleanupCtxDone => ~ok
                   /\ IF ok THEN /\ cloudVM' = "deleted"
                                 /\ UNCHANGED cleanupErrors
                            ELSE /\ cloudVM' = cloudVM
                                 /\ cleanupErrors' = cleanupErrors + 1
         ELSE UNCHANGED <<deleteCalls, cloudVM, cleanupErrors>>
    /\ UNCHANGED <<mode, pc, result, failedStep, resources, scheduled, delay, cleanupRuns,
                   exited, cloudDisk, attached, imageCreated>>
    /\ UNCHANGED requests
    /\ UNCHANGED scriptVars
    /\ UNCHANGED <<pureVars, remoteVars>>

\* if IsLocalMode && CacheDisk != nil { metadata; if err == nil { DetachDisk (result dropped) } }
cleanupDetachDisk ==
    /\ exited = "running"
    /\ cleanupPc = "DetachDisk"
    /\ cleanupPc' = "DeleteDisk"
    /\ IF IsLocalMode /\ resources.CacheDisk
         THEN \E out \in {"metadataError", "detachError", "ok"} :
                /\ cleanupCtxDone => out # "ok"
                /\ deleteCalls' = IF out = "metadataError" THEN deleteCalls
                                  ELSE CleanupCall(deleteCalls, "detach")
                /\ attached' = IF out = "ok" THEN FALSE ELSE attached
                /\ cleanupErrors' = IF out = "ok" THEN cleanupErrors ELSE cleanupErrors + 1
         ELSE UNCHANGED <<deleteCalls, attached, cleanupErrors>>
    /\ UNCHANGED <<mode, pc, result, failedStep, resources, scheduled, delay, cleanupRuns,
                   exited, cloudDisk, cloudVM, imageCreated>>
    /\ UNCHANGED requests
    /\ UNCHANGED scriptVars
    /\ UNCHANGED <<pureVars, remoteVars>>

\* A cleanupResources whose DeleteDisk error reaches the caller's result.
cleanupDeleteDiskReturnsError ==
    /\ exited = "running"
    /\ cleanupPc = "DeleteDisk"
    /\ cleanupPc' = "done"
    /\ IF resources.CacheDisk
         THEN /\ deleteCalls' = CleanupCall(deleteCalls, "disk")
              /\ \E ok \in BOOLEAN :
                   /\ cleanupCtxDone => ~ok
                   /\ IF ok THEN /\ cloudDisk' = "deleted"
                                 /\ UNCHANGED <<cleanupErrors, result>>
                            ELSE /\ cloudDisk' = cloudDisk
                                 /\ cleanupErrors' = cleanupErrors + 1
                                 /\ result' = "failed to cleanup disk"
         ELSE UNCHANGED <<deleteCalls, cloudDisk, cleanupErrors, result>>
    /\ UNCHANGED <<mode, pc, failedStep, resources, scheduled, delay, cleanupRuns,
                   exited, cloudVM, attached, imageCreated>>
    /\ UNCHANGED requests
    /\ UNCHANGED scriptVars
    /\ UNCHANGED <<pureVars, remoteVars>>

\* if resources.CacheDisk != nil { DeleteDisk; on error Warnf }
cleanupDeleteDisk ==
    /\ exited = "running"
    /\ cleanupPc = "DeleteDisk"
    /\ cleanupPc' = "done"
    /\ IF resources.CacheDisk
         THEN /\ deleteCalls' = CleanupCall(deleteCalls, "disk")
              /\ \E ok \in BOOLEAN :
                   /\ cleanupCtxDone => ~ok
                   /\ IF ok THEN /\ cloudDisk' = "deleted"
                                 /\ UNCHANGED cleanupErrors
                            ELSE /\ cloudDisk' = cloudDisk
                                 /\ cleanupErrors' = cleanupErrors + 1
         ELSE UNCHANGED <<deleteCalls, cloudDisk, cleanupErrors>>
    /\ UNCHANGED <<mode, pc, result, failedStep, resources, scheduled, delay, cleanupRuns,
                   exited, cloudVM, attached, imageCreated>>
    /\ UNCHANGED requests
    /\ UNCHANGED scriptVars
    /\ UNCHANGED <<pureVars, remoteVars>>

----------------------------------------------------------------------------
(* main: BuildImageCache returned; os.Exit(1) on error, return otherwise.  *)
(* Either way the process ends and its goroutines end with it.             *)

mainExit ==
    /\ exited = "running"
    /\ pc = "returned"
    /\ exited' = IF result = "nil" THEN "exit0" ELSE "exit1"
    /\ UNCHANGED <<mode, pc, result, failedStep, resources, scheduled, delay, cleanupPc,
                   cleanupRuns, deleteCalls, cleanupErrors>>
    /\ cloudUnchanged
    /\ UNCHANGED scriptVars
    /\ UNCHANGED <<pureVars, remoteVars>>

----------------------------------------------------------------------------

(* setup-and-verify.sh: data                                                *)

MaxImages == 2

MaxSnapshots == 2

MaxFiles == 2

MaxContent == 2

MaxPulls == 1

MaxCorruptions == 1

Files == 1..MaxFiles

\* A directory tree: file name -> content, 0 for "no such file".  NoDir: no directory.
NoDir == <<>>

EmptyDir == [f \in Files |-> 0]

\* The fs tree of committed snapshot c in the runtime's store (content-addressed:
\* the chain id fixes the content).
TreeOf(c) == [f \in Files |-> (c + f) % (MaxContent + 1)]

\* grep -o "snapshots/.*/fs": the directory the runtime keeps snapshot c under,
\* named by the snapshotter's own number for it, not by the chain id.
NewPath(c) == MaxSnapshots + c

Paths == {NewPath(c) : c \in 1..MaxSnapshots}

\* md5sum of one file: collision-free on the contents of the model.
Md5File(content) == (7 * content + 3) % 11

\* find <dir> -type f -exec md5sum {} + | cut -d' ' -f1
RECURSIVE FileHashes(_, _)
FileHashes(tree, f) ==
    IF f > Len(tree) THEN <<>>
    ELSE (IF tree[f] = 0 THEN <<>> ELSE <<Md5File(tree[f])>>) \o FileHashes(tree, f + 1)

\* ... | LC_ALL=C sort | md5sum | cut -d' ' -f1
Checksum(tree) == <<"md5", SortSeq(FileHashes(tree, 1), LAMBDA a, b : a < b)>>

\* The orders find can list the files of a directory in: the directory's own order,
\* which depends on how the copy was made, not on the names.
Orders == {o \in [Files -> Files] : \A f, g \in Files : o[f] = o[g] => f = g}

Trees == [Files -> 0..MaxContent]

\* find <dir> -type f -exec md5sum {} + | cut -d' ' -f1, the files listed in order.
RECURSIVE FindHashes(_, _, _)
FindHashes(tree, order, k) ==
    IF k > Len(order) THEN <<>>
    ELSE (IF tree[order[k]] = 0 THEN <<>> ELSE <<Md5File(tree[order[k]])>>)
         \o FindHashes(tree, order, k + 1)

\* find <dir> -type f | ...: the names of the files, not their hashes.
RECURSIVE FindNames(_, _, _)
FindNames(tree, order, k) ==
    IF k > Len(order) THEN <<>>
    ELSE (IF tree[order[k]] = 0 THEN <<>> ELSE <<order[k]>>)
         \o FindNames(tree, order, k + 1)

\* The pipeline without its sort.
ChecksumOfUnsorted(tree, order) == <<"md5", FindHashes(tree, order, 1)>>

\* The pipeline without its -exec md5sum.
ChecksumOfNames(tree, order) ==
    <<"md5", SortSeq(FindNames(tree, order, 1), LAMBDA a, b : a < b)>>

\* find ... -exec md5sum {} + | cut -d' ' -f1 | LC_ALL=C sort | md5sum | cut -d' ' -f1
\* of a directory whose files find lists in the given order.
ChecksumOf(tree, order) ==
    <<"md5", SortSeq(FindHashes(tree, order, 1), LAMBDA a, b : a < b)>>

\* cp -r -p "$original_path" "$MOUNT_POINT/${new_path}/..": the copy lands in the fs
\* directory mkdir -p made or found, on top of what is there.
CopyInto(old, src) ==
    IF old = NoDir THEN src
    ELSE [f \in Files |-> IF src[f] # 0 THEN src[f] ELSE old[f]]

\* What a cp that failed half way leaves behind.
PartialCopy(old, src, done) ==
    CopyInto(IF old = NoDir THEN EmptyDir ELSE old,
             [f \in Files |-> IF f \in done THEN src[f] ELSE 0])

\* A mapping with its first two fields in the other order.
MetadataEntryBug(snapshot, new_path, store, checksum) ==
    IF store THEN <<new_path, snapshot, checksum>> ELSE <<new_path, snapshot>>

\* mapping="$snapshot $new_path" or "$snapshot $new_path $checksum": a line is its
\* space-separated fields.
MetadataEntry(snapshot, new_path, store, checksum) ==
    IF store THEN <<snapshot, new_path, checksum>> ELSE <<snapshot, new_path>>

\* echo "$mapping" > file: the line replaces the file's content.
AppendLineBug(file, line) == <<line>>

\* echo "$mapping" >> "$MOUNT_POINT/snapshots.metadata"
AppendLine(file, line) == Append(file, line)

\* cut -d' ' -f<n>: the empty string when the line has fewer fields.
Field(line, n) == IF n <= Len(line) THEN line[n] ELSE <<>>

\* The file system on the disk.  written: the records process_snapshots appended
\* to it, as it computed them (chain id, path, checksum, tree at that moment).
\* What a process writes below MOUNT_POINT while nothing is mounted lands in the
\* directory underneath; no mode reads that back once a mount hides it, and it is
\* not tracked.
EmptyFS == [formatted |-> FALSE, metaExists |-> FALSE, snapMeta |-> <<>>,
            imagesMeta |-> 0, trees |-> [p \in Paths |-> NoDir], written |-> <<>>]

\* prepare_disk_operations, after mkfs.ext4: a new, empty file system.
FormattedFS == [EmptyFS EXCEPT !.formatted = TRUE]

\* prepare_disk_operations, after a successful mount: rm -f; touch (both files).
InitialisedFS == [FormattedFS EXCEPT !.metaExists = TRUE]

DirAt(trees, path) == IF path \in DOMAIN trees THEN trees[path] ELSE NoDir

\* A file's content after damage: another content, or none where it was the last
\* one (the file is gone), or the first one where there was no file.
Damaged(content) == (content + 1) % (MaxContent + 1)

\* Exit status of (( expr )): 1 when the expression's value is 0.  For x++ and x--
\* the value is the one before the change.
ArithStatus(value) == IF value = 0 THEN 1 ELSE 0

\* local retries=5
RetriesInit == 5

AuthMechanisms == {"none", "serviceaccounttoken", "dockerconfig"}

\* A loop that stops at the first mismatch.
RECURSIVE VerifyLinesBug(_, _, _)
VerifyLinesBug(lines, trees, acc) ==
    IF lines = <<>> THEN acc
    ELSE LET line == Head(lines) IN
      IF line = <<>> THEN VerifyLinesBug(Tail(lines), trees, acc)
      ELSE IF Field(line, 3) = <<>> THEN [acc EXCEPT !.fatal = TRUE]
      ELSE IF Field(line, 3) = Checksum(DirAt(trees, Field(line, 2)))
        THEN VerifyLinesBug(Tail(lines), trees,
                            [acc EXCEPT !.verified = Append(@, Field(line, 1))])
        ELSE [acc EXCEPT !.mismatched = Append(@, Field(line, 1))]

\* A loop that passes over a line without a checksum.
RECURSIVE VerifyLinesSkipsMissing(_, _, _)
VerifyLinesSkipsMissing(lines, trees, acc) ==
    IF lines = <<>> THEN acc
    ELSE LET line == Head(lines) IN
      IF line = <<>> \/ Field(line, 3) = <<>>
        THEN VerifyLinesSkipsMissing(Tail(lines), trees, acc)
      ELSE IF Field(line, 3) = Checksum(DirAt(trees, Field(line, 2)))
        THEN VerifyLinesSkipsMissing(Tail(lines), trees,
                                     [acc EXCEPT !.verified = Append(@, Field(line, 1))])
        ELSE VerifyLinesSkipsMissing(Tail(lines), trees,
                                     [acc EXCEPT !.mismatched = Append(@, Field(line, 1))])

\* A loop that takes a blank line for a record without a checksum.
RECURSIVE VerifyLinesBlankFatal(_, _, _)
VerifyLinesBlankFatal(lines, trees, acc) ==
    IF lines = <<>> THEN acc
    ELSE LET line == Head(lines) IN
      IF Field(line, 3) = <<>> THEN [acc EXCEPT !.fatal = TRUE]
      ELSE IF Field(line, 3) = Checksum(DirAt(trees, Field(line, 2)))
        THEN VerifyLinesBlankFatal(Tail(lines), trees,
                                   [acc EXCEPT !.verified = Append(@, Field(line, 1))])
        ELSE VerifyLinesBlankFatal(Tail(lines), trees,
                                   [acc EXCEPT !.mismatched = Append(@, Field(line, 1))])

\* The while loop of verify_disk_image over the lines of snapshots.metadata: a
\* blank line is skipped, a line without a third field ends the process, a
\* mismatch is noted and the loop goes on.
RECURSIVE VerifyLines(_, _, _)
VerifyLines(lines, trees, acc) ==
    IF lines = <<>> THEN acc
    ELSE LET line == Head(lines) IN
      IF line = <<>> THEN VerifyLines(Tail(lines), trees, acc)
      ELSE IF Field(line, 3) = <<>> THEN [acc EXCEPT !.fatal = TRUE]
      ELSE IF Field(line, 3) = Checksum(DirAt(trees, Field(line, 2)))
        THEN VerifyLines(Tail(lines), trees,
                         [acc EXCEPT !.verified = Append(@, Field(line, 1))])
        ELSE VerifyLines(Tail(lines), trees,
                         [acc EXCEPT !.mismatched = Append(@, Field(line, 1))])

----------------------------------------------------------------------------
(* setup-and-verify.sh: one bash process at a time                        *)

\* A process starts: main "$@" with fresh shell variables.
StartProcess(m) ==
    /\ spc = "idle"
    /\ prev' = <<smode, exitStatus>>
    /\ smode' = m
    /\ marker' = FALSE
    /\ pullLog' = <<>>
    /\ attempts' = 0
    /\ snapshots' = <<>>

\* The process ends: by exit 1, by set -e at a failing command, or after its last
\* command.  The ERR trap is not inherited by functions (no set -E), so
\* cleanup_on_error does not run and the mount is left as it is.
Exit(m, status, point) ==
    /\ spc' = "idle"
    /\ exitStatus' = status
    /\ failPoint' = point
    /\ current' = 0
    /\ retries' = 0
    /\ sauth' = "none"
    /\ sstore' = FALSE

Running(next) ==
    /\ spc' = next
    /\ UNCHANGED <<exitStatus, failPoint>>

envUnchanged == UNCHANGED <<arithErrexit, images, badImage, corruptions>>

\* Mode prepare-disk, start to end.  mkfs.ext4 is given -F once, which does not
\* override its refusal to format a mounted device.
prepare_disk_operations ==
    /\ StartProcess("prepare-disk")
    /\ UNCHANGED pulls
    /\ \E out \in {"noDevice", "mkfsFails", "mountFails", "ok"} :
         /\ mounted => out \in {"noDevice", "mkfsFails"}
         /\ fs' = CASE out = "mountFails" -> FormattedFS
                    [] out = "ok"         -> InitialisedFS
                    [] OTHER              -> fs
         /\ mounted' = IF out = "ok" THEN TRUE ELSE mounted
         /\ CASE out = "noDevice"   -> Exit("prepare-disk", "1", "[ -b $DEVICE_NODE ]")
              [] out = "mkfsFails"  -> Exit("prepare-disk", "1", "mkfs.ext4")
              [] out = "mountFails" -> Exit("prepare-disk", "1", "mount")
              [] OTHER              -> Exit("prepare-disk", "0", "none")
    /\ vVerified' = <<>>
    /\ vMismatched' = <<>>
    /\ UNCHANGED rtCommitted
    /\ envUnchanged
    /\ UNCHANGED wfVars
    /\ UNCHANGED <<pureVars, remoteVars>>

\* Mode pull-images, up to pull_images: the arguments, setup_authentication,
\* remove_snapshot_views.  At most n such processes are started.
pull_and_process_imagesUpTo(n) ==
    /\ StartProcess("pull-images")
    /\ pulls < n
    /\ pulls' = pulls + 1
    /\ \E auth \in AuthMechanisms, store \in BOOLEAN, tokenOk \in BOOLEAN :
         IF auth = "serviceaccounttoken" /\ ~tokenOk
           THEN Exit("pull-images", "1", "setup_authentication")
           ELSE /\ Running("pull_images")
                /\ sauth' = auth
                /\ sstore' = store
                /\ current' = 0
                /\ retries' = 0
    /\ vVerified' = <<>>
    /\ vMismatched' = <<>>
    /\ UNCHANGED <<mounted, fs, rtCommitted>>
    /\ envUnchanged
    /\ UNCHANGED wfVars
    /\ UNCHANGED <<pureVars, remoteVars>>

pull_and_process_images == pull_and_process_imagesUpTo(MaxPulls)

\* A loop that notes a failed pull and goes on to the next image.
pull_imagesPastFailure ==
    /\ spc = "pull_images"
    /\ current < Len(images)
    /\ LET i == current + 1 IN
         IF arithErrexit /\ ArithStatus(current) # 0
           THEN /\ Exit(smode, "1", "pull_images: ((current++))")
                /\ UNCHANGED <<pullLog, rtCommitted>>
         ELSE IF sauth \notin {"none", "serviceaccounttoken"}
           THEN /\ Exit(smode, "1", "pull_images: unknown OAuth mechanism")
                /\ UNCHANGED <<pullLog, rtCommitted>>
         ELSE \E served \in BOOLEAN :
                /\ (badImage = 0 \/ i < badImage) => served
                /\ i = badImage => ~served
                /\ pullLog' = Append(pullLog, <<i, served>>)
                /\ IF served
                     THEN /\ Running("pull_images")
                          /\ current' = i
                          /\ UNCHANGED <<retries, sauth, sstore>>
                          /\ rtCommitted' \in rtCommitted..MaxSnapshots
                     ELSE /\ Running("pull_images")
                          /\ current' = i
                          /\ UNCHANGED <<retries, sauth, sstore>>
                          /\ UNCHANGED rtCommitted
    /\ UNCHANGED <<pulls, prev, smode, marker, attempts, snapshots, vVerified, vMismatched,
                   mounted, fs>>
    /\ envUnchanged
    /\ UNCHANGED wfVars
    /\ UNCHANGED <<pureVars, remoteVars>>

\* One iteration of "for image in ${images[@]}".  The pull of image i succeeds when
\* the registry serves it; a failing ctr ends the process there (set -e), before
\* "local pull_result=$?" is reached.
pull_images ==
    /\ spc = "pull_images"
    /\ current < Len(images)
    /\ LET i == current + 1 IN
         IF arithErrexit /\ ArithStatus(current) # 0
           THEN /\ Exit(smode, "1", "pull_images: ((current++))")
                /\ UNCHANGED <<pullLog, rtCommitted>>
         ELSE IF sauth \notin {"none", "serviceaccounttoken"}
           THEN /\ Exit(smode, "1", "pull_images: unknown OAuth mechanism")
                /\ UNCHANGED <<pullLog, rtCommitted>>
         ELSE \E served \in BOOLEAN :
                /\ (badImage = 0 \/ i < badImage) => served
                /\ i = badImage => ~served
                /\ pullLog' = Append(pullLog, <<i, served>>)
                /\ IF served
                     THEN /\ Running("pull_images")
                          /\ current' = i
                          /\ UNCHANGED <<retries, sauth, sstore>>
                          /\ rtCommitted' \in rtCommitted..MaxSnapshots
                     ELSE /\ Exit(smode, "1", "ctr image pull")
                          /\ UNCHANGED rtCommitted
    /\ UNCHANGED <<pulls, prev, smode, marker, attempts, snapshots, vVerified, vMismatched,
                   mounted, fs>>
    /\ envUnchanged
    /\ UNCHANGED wfVars
    /\ UNCHANGED <<pureVars, remoteVars>>

\* The loop of pull_images is over: all_images_pulled.flag, write_image_metadata,
\* and the first line of process_snapshots, which lists the committed snapshots.
write_image_metadata ==
    /\ spc = "pull_images"
    /\ current = Len(images)
    /\ fs' = IF mounted THEN [fs EXCEPT !.imagesMeta = @ + 1] ELSE fs
    /\ snapshots' = [k \in 1..rtCommitted |-> k]
    /\ current' = 0
    /\ Running("process_snapshots")
    /\ UNCHANGED <<pulls, prev, smode, marker, attempts, pullLog, vVerified, vMismatched,
                   sauth, sstore, mounted, rtCommitted, retries>>
    /\ envUnchanged
    /\ UNCHANGED wfVars
    /\ UNCHANGED <<pureVars, remoteVars>>

\* Head of "for snapshot in ${snapshots[@]}": ((current++)), retries=5.
process_snapshots ==
    /\ spc = "process_snapshots"
    /\ IF current = Len(snapshots)
         THEN /\ Running("finish")
              /\ UNCHANGED <<current, retries, attempts, sauth, sstore>>
         ELSE IF arithErrexit /\ ArithStatus(current) # 0
           THEN /\ Exit(smode, "1", "process_snapshots: ((current++))")
                /\ attempts' = 0
         ELSE /\ Running("view")
              /\ current' = current + 1
              /\ retries' = RetriesInit
              /\ attempts' = 0
              /\ UNCHANGED <<sauth, sstore>>
    /\ UNCHANGED <<pulls, prev, smode, marker, snapshots, pullLog, vVerified, vMismatched,
                   mounted, fs, rtCommitted>>
    /\ envUnchanged
    /\ UNCHANGED wfVars
    /\ UNCHANGED <<pureVars, remoteVars>>

\* One iteration of "while [ ${retries} -ge 1 ]": ((retries--)), snapshot view,
\* snapshot mount | grep | head.  A failing "ctr snapshot view" ends the process
\* (set -e); the pipeline inside $( ) cannot, its status is that of head.
snapshot_view ==
    /\ spc = "view"
    /\ retries >= 1
    /\ attempts' = attempts + 1
    /\ IF arithErrexit /\ ArithStatus(retries) # 0
         THEN Exit(smode, "1", "((retries--))")
         ELSE \E out \in {"viewFails", "noPath", "path"} :
                CASE out = "viewFails" -> Exit(smode, "1", "ctr snapshot view")
                  [] out = "path"      -> /\ Running("copy")
                                          /\ retries' = retries - 1
                                          /\ UNCHANGED <<current, sauth, sstore>>
                  [] OTHER             ->
                       IF retries - 1 >= 1
                         THEN /\ Running("view")
                              /\ retries' = retries - 1
                              /\ UNCHANGED <<current, sauth, sstore>>
                         ELSE Exit(smode, "1", "Failed to process snapshot")
    /\ UNCHANGED <<pulls, prev, smode, marker, snapshots, pullLog, vVerified, vMismatched,
                   mounted, fs, rtCommitted>>
    /\ envUnchanged
    /\ UNCHANGED wfVars
    /\ UNCHANGED <<pureVars, remoteVars>>

\* A loop body that appends the line to snapshots.metadata before it copies.
snapshot_copyAfterRecord ==
    /\ spc = "copy"
    /\ LET snapshot == snapshots[current]
           new_path == NewPath(snapshot)
           old      == IF mounted THEN fs.trees[new_path] ELSE NoDir
           copied   == CopyInto(old, TreeOf(snapshot))
           checksum == Checksum(copied)
           mapping  == MetadataEntry(snapshot, new_path, sstore, checksum)
       IN \E out \in {"cpFails", "writeFails", "ok"} :
            CASE out = "cpFails" ->
                   /\ \E done \in {1..n : n \in 0..MaxFiles} :
                        LET partial == PartialCopy(old, TreeOf(snapshot), done) IN
                        fs' = IF mounted
                                THEN [fs EXCEPT !.trees[new_path] = partial,
                                                !.metaExists = TRUE,
                                                !.snapMeta = AppendLine(@, mapping),
                                                !.written =
                                                    Append(@, [chain |-> snapshot, path |-> new_path,
                                                               checksum |-> checksum, tree |-> partial,
                                                               stored |-> sstore])]
                                ELSE fs
                   /\ Exit(smode, "1", "cp -r -p")
              [] out = "writeFails" ->
                   /\ fs' = IF mounted THEN [fs EXCEPT !.trees[new_path] = copied] ELSE fs
                   /\ Exit(smode, "1", "echo >> snapshots.metadata")
              [] OTHER ->
                   /\ fs' = IF mounted
                              THEN [fs EXCEPT !.trees[new_path] = copied,
                                              !.metaExists = TRUE,
                                              !.snapMeta = AppendLine(@, mapping),
                                              !.written =
                                                  Append(@, [chain |-> snapshot, path |-> new_path,
                                                             checksum |-> checksum, tree |-> copied,
                                                             stored |-> sstore])]
                              ELSE fs
                   /\ Running("process_snapshots")
                   /\ UNCHANGED <<current, retries, sauth, sstore>>
    /\ UNCHANGED <<pulls, prev, smode, marker, attempts, snapshots, pullLog, vVerified,
                   vMismatched, mounted, rtCommitted>>
    /\ envUnchanged
    /\ UNCHANGED wfVars
    /\ UNCHANGED <<pureVars, remoteVars>>

\* The rest of the loop body: mkdir -p, cp -r -p, the checksum, the line appended
\* to snapshots.metadata, the view removed.
snapshot_copy ==
    /\ spc = "copy"
    /\ LET snapshot == snapshots[current]
           new_path == NewPath(snapshot)
           old      == IF mounted THEN fs.trees[new_path] ELSE NoDir
           copied   == CopyInto(old, TreeOf(snapshot))
           checksum == Checksum(copied)
           mapping  == MetadataEntry(snapshot, new_path, sstore, checksum)
       IN \E out \in {"cpFails", "writeFails", "ok"} :
            CASE out = "cpFails" ->
                   /\ \E done \in {1..n : n \in 0..MaxFiles} :
                        fs' = IF mounted
                                THEN [fs EXCEPT !.trees[new_path] =
                                                   PartialCopy(old, TreeOf(snapshot), done)]
                                ELSE fs
                   /\ Exit(smode, "1", "cp -r -p")
              [] out = "writeFails" ->
                   /\ fs' = IF mounted THEN [fs EXCEPT !.trees[new_path] = copied] ELSE fs
                   /\ Exit(smode, "1", "echo >> snapshots.metadata")
              [] OTHER ->
                   /\ fs' = IF mounted
                              THEN [fs EXCEPT !.trees[new_path] = copied,
                                              !.metaExists = TRUE,
                                              !.snapMeta = AppendLine(@, mapping),
                                              !.written =
                                                  Append(@, [chain |-> snapshot, path |-> new_path,
                                                             checksum |-> checksum, tree |-> copied,
                                                             stored |-> sstore])]
                              ELSE fs
                   /\ Running("process_snapshots")
                   /\ UNCHANGED <<current, retries, sauth, sstore>>
    /\ UNCHANGED <<pulls, prev, smode, marker, attempts, snapshots, pullLog, vVerified,
                   vMismatched, mounted, rtCommitted>>
    /\ envUnchanged
    /\ UNCHANGED wfVars
    /\ UNCHANGED <<pureVars, remoteVars>>

\* An end of pull_and_process_images that prints the completion marker before the
\* umount, whatever becomes of the umount.
finish_markerBeforeUmount ==
    /\ spc = "finish"
    /\ marker' = TRUE
    /\ \E ok \in BOOLEAN :
         IF mounted /\ ok
           THEN /\ mounted' = FALSE
                /\ Exit(smode, "0", "none")
           ELSE /\ UNCHANGED mounted
                /\ Exit(smode, "1", "umount")
    /\ UNCHANGED <<pulls, prev, smode, attempts, snapshots, pullLog, vVerified, vMismatched,
                   fs, rtCommitted>>
    /\ envUnchanged
    /\ UNCHANGED wfVars
    /\ UNCHANGED <<pureVars, remoteVars>>

\* After process_snapshots: cleanup_pulled_images, umount "$MOUNT_POINT", the
\* completion marker.  umount of a directory that is not mounted fails.
finish_pull_and_process ==
    /\ spc = "finish"
    /\ \E ok \in BOOLEAN :
         IF mounted /\ ok
           THEN /\ mounted' = FALSE
                /\ marker' = TRUE
                /\ Exit(smode, "0", "none")
           ELSE /\ UNCHANGED <<mounted, marker>>
                /\ Exit(smode, "1", "umount")
    /\ UNCHANGED <<pulls, prev, smode, attempts, snapshots, pullLog, vVerified, vMismatched,
                   fs, rtCommitted>>
    /\ envUnchanged
    /\ UNCHANGED wfVars
    /\ UNCHANGED <<pureVars, remoteVars>>

\* A verify_disk_image that wants at least one verified record.
verify_disk_imageNeedsRecord ==
    /\ StartProcess("verify-image")
    /\ UNCHANGED pulls
    /\ IF ~mounted
         THEN /\ Exit("verify-image", "1", "Cannot mount disk for verification")
              /\ vVerified' = <<>>
              /\ vMismatched' = <<>>
         ELSE IF ~fs.metaExists
           THEN /\ Exit("verify-image", "1", "Snapshots metadata file not found")
                /\ vVerified' = <<>>
                /\ vMismatched' = <<>>
         ELSE LET r == VerifyLines(fs.snapMeta, fs.trees,
                                   [verified |-> <<>>, mismatched |-> <<>>, fatal |-> FALSE])
              IN /\ vVerified' = r.verified
                 /\ vMismatched' = r.mismatched
                 /\ IF r.fatal THEN Exit("verify-image", "1", "Expected checksums not found")
                    ELSE IF r.mismatched # <<>> \/ r.verified = <<>>
                      THEN Exit("verify-image", "1", "checksum mismatch detected")
                    ELSE Exit("verify-image", "0", "none")
    /\ UNCHANGED <<mounted, fs, rtCommitted>>
    /\ envUnchanged
    /\ UNCHANGED wfVars
    /\ UNCHANGED <<pureVars, remoteVars>>

\* Mode verify-image, start to end.  DEVICE_NODE is "" in this process (only
\* prepare_disk_operations sets it), so an unmounted mount point cannot be mounted.
verify_disk_image ==
    /\ StartProcess("verify-image")
    /\ UNCHANGED pulls
    /\ IF ~mounted
         THEN /\ Exit("verify-image", "1", "Cannot mount disk for verification")
              /\ vVerified' = <<>>
              /\ vMismatched' = <<>>
         ELSE IF ~fs.metaExists
           THEN /\ Exit("verify-image", "1", "Snapshots metadata file not found")
                /\ vVerified' = <<>>
                /\ vMismatched' = <<>>
         ELSE LET r == VerifyLines(fs.snapMeta, fs.trees,
                                   [verified |-> <<>>, mismatched |-> <<>>, fatal |-> FALSE])
              IN /\ vVerified' = r.verified
                 /\ vMismatched' = r.mismatched
                 /\ IF r.fatal THEN Exit("verify-image", "1", "Expected checksums not found")
                    ELSE IF r.mismatched # <<>> THEN Exit("verify-image", "1", "checksum mismatch detected")
                    ELSE Exit("verify-image", "0", "none")
    /\ UNCHANGED <<mounted, fs, rtCommitted>>
    /\ envUnchanged
    /\ UNCHANGED wfVars
    /\ UNCHANGED <<pureVars, remoteVars>>

\* Someone mounts the prepared disk at MOUNT_POINT again (verify_disk_image looks
\* for it with mountpoint -q).
mountDisk ==
    /\ spc = "idle"
    /\ ~mounted
    /\ fs.formatted
    /\ mounted' = TRUE
    /\ UNCHANGED <<arithErrexit, images, badImage, rtCommitted, fs, spc, smode, sauth,
                   sstore, current, snapshots, retries, attempts, pullLog, exitStatus,
                   failPoint, marker, vVerified, vMismatched, prev, pulls, corruptions>>
    /\ UNCHANGED wfVars
    /\ UNCHANGED <<pureVars, remoteVars>>

\* After a build, the content of one file under a recorded path changes (or the
\* file disappears, or appears).
corruptFile ==
    /\ spc = "idle"
    /\ smode = "pull-images"
    /\ exitStatus = "0"
    /\ corruptions < MaxCorruptions
    /\ \E k \in 1..Len(fs.written), f \in Files :
         LET path == fs.written[k].path IN
           fs' = [fs EXCEPT !.trees[path][f] = Damaged(@)]
    /\ corruptions' = corruptions + 1
    /\ UNCHANGED <<arithErrexit, images, badImage, rtCommitted, mounted, spc, smode, sauth,
                   sstore, current, snapshots, retries, attempts, pullLog, exitStatus,
                   failPoint, marker, vVerified, vMismatched, prev, pulls>>
    /\ UNCHANGED wfVars
    /\ UNCHANGED <<pureVars, remoteVars>>

----------------------------------------------------------------------------
----------------------------------------------------------------------------
(* Remote mode in steps: CreateVM and executeRemoteMode with their waits,  *)
(* and the startup script of the VM that writes to the serial console.     *)

MaxReads == 2

\* The substrings the orchestrator looks for, and "FAILED".
Markers == {"Environment setup completed.", "environment_ready.flag",
            "Unpacking is completed.", "Full workflow completed successfully",
            "ERROR", "Failed", "FAILED"}

NoPoll == [n |-> 0, errs |-> 0, err |-> FALSE, text |-> {}]

Count(n) == IF n < MaxReads THEN n + 1 ELSE n

\* One more poll of the wait in progress, failed or returning text.
Polled(ok, text) ==
    [n    |-> Count(poll.n),
     errs |-> IF ok THEN poll.errs ELSE Count(poll.errs),
     err  |-> ~ok,
     text |-> IF ok THEN text ELSE {}]

\* getRemoteCommandOutput: GetSerialPortOutput under the workflow context; the
\* command it is given is not used.  It cannot succeed once the context is done or
\* the VM is gone.
CanRead(ok) == ok => (~ctxDone /\ cloudVM = "present")

\* The waits of C19's list.
BlockingWaits == {"WaitForOperation", "waitForVMRunning",
                  "waitForRemoteEnvironment.Sleep", "waitForRemoteEnvironment.select"}

timeUnchanged == UNCHANGED <<ctxDone, timerDone, tick>>

vmUnchanged == UNCHANGED <<vmpc, console>>

\* CreateVM, its call of Instances.Insert.
InstancesInsert ==
    /\ pc = "CreateVM"
    /\ \E ok \in BOOLEAN :
         IF ok THEN /\ cloudVM' = "present"
                    /\ Continue("WaitForOperation")
               ELSE /\ cloudVM' = cloudVM
                    /\ FailStep("CreateVM", NilResources)
    /\ poll' = NoPoll
    /\ Request("CreateVM")
    /\ UNCHANGED <<cloudDisk, attached, imageCreated>>
    /\ goroutineUnchanged
    /\ UNCHANGED <<mode, exited, waitResult>>
    /\ timeUnchanged /\ vmUnchanged
    /\ UNCHANGED <<scriptVars, pureVars>>

\* WaitForOperation, one turn of its loop: return ctx.Err() when the context is
\* done, else get the operation; not DONE: sleep 2 seconds and go round.
WaitForOperation ==
    /\ pc = "WaitForOperation"
    /\ IF ctxDone
         THEN /\ FailStep("CreateVM", NilResources)
              /\ UNCHANGED <<poll, tick, timerDone>>
         ELSE \E out \in {"error", "DONE with error", "DONE", "RUNNING"} :
                /\ CASE out = "DONE"    -> Continue("waitForVMRunning")
                     [] out = "RUNNING" -> Continue("WaitForOperation")
                     [] OTHER           -> FailStep("CreateVM", NilResources)
                /\ poll' = IF out = "DONE" THEN NoPoll ELSE Polled(out # "error", {})
                /\ tick' = FALSE
                /\ timerDone' = FALSE
    /\ cloudUnchanged /\ goroutineUnchanged
    /\ UNCHANGED <<mode, exited, waitResult, ctxDone>>
    /\ vmUnchanged
    /\ UNCHANGED <<scriptVars, pureVars>>

\* waitForVMRunning, case <-timeout: its own five minutes are over.
waitForVMRunningTimeout ==
    /\ pc = "waitForVMRunning"
    /\ timerDone
    /\ FailStep("CreateVM", NilResources)
    /\ cloudUnchanged /\ goroutineUnchanged
    /\ UNCHANGED <<mode, exited, waitResult, poll>>
    /\ timeUnchanged /\ vmUnchanged
    /\ UNCHANGED <<scriptVars, pureVars>>

\* waitForVMRunning, case <-ticker.C: GetInstance; an error or another status
\* than RUNNING goes round the loop.  There is no case for ctx.Done().
waitForVMRunningTick ==
    /\ pc = "waitForVMRunning"
    /\ tick
    /\ tick' = FALSE
    /\ \E out \in {"error", "RUNNING", "PROVISIONING"} :
         /\ CanRead(out # "error")
         /\ poll' = IF out = "RUNNING" THEN NoPoll ELSE Polled(out # "error", {})
         /\ Continue(IF out = "RUNNING" THEN "AttachDisk" ELSE "waitForVMRunning")
    /\ cloudUnchanged /\ goroutineUnchanged
    /\ UNCHANGED <<mode, exited, waitResult, ctxDone, timerDone>>
    /\ vmUnchanged
    /\ UNCHANGED <<scriptVars, pureVars>>

\* waitForRemoteEnvironment up to its time.Sleep(120 * time.Second): timeoutCtx
\* and the 30-second ticker are made first.
waitForRemoteEnvironment ==
    /\ pc = "executeRemoteMode"
    /\ Continue("waitForRemoteEnvironment.Sleep")
    /\ tick' = FALSE
    /\ timerDone' = FALSE
    /\ poll' = NoPoll
    /\ cloudUnchanged /\ goroutineUnchanged
    /\ UNCHANGED <<mode, exited, waitResult, ctxDone>>
    /\ vmUnchanged
    /\ UNCHANGED <<scriptVars, pureVars>>

\* time.Sleep returns after its two minutes whatever happened to the context; the
\* ticker has fired meanwhile.
SleepReturns ==
    /\ pc = "waitForRemoteEnvironment.Sleep"
    /\ Continue("waitForRemoteEnvironment.select")
    /\ tick' = TRUE
    /\ cloudUnchanged /\ goroutineUnchanged
    /\ UNCHANGED <<mode, exited, waitResult, ctxDone, timerDone, poll>>
    /\ vmUnchanged
    /\ UNCHANGED <<scriptVars, pureVars>>

\* timeoutCtx is done: after w.config.Timeout, or when its parent is.
timeoutCtxDone == timerDone \/ ctxDone

\* A select that looks at timeoutCtx only after a console read that worked.
waitSelectTimeoutAfterRead ==
    /\ pc = "waitForRemoteEnvironment.select"
    /\ timeoutCtxDone
    /\ poll.n > 0 /\ ~poll.err
    /\ waitResult' = "timeout waiting for remote environment"
    /\ FailStep("waitForRemoteEnvironment", resources)
    /\ cloudUnchanged /\ goroutineUnchanged
    /\ UNCHANGED <<mode, exited, poll>>
    /\ timeUnchanged /\ vmUnchanged
    /\ UNCHANGED <<scriptVars, pureVars>>

\* select, case <-timeoutCtx.Done().  The console read of this case is only
\* logged.
waitSelectTimeout ==
    /\ pc = "waitForRemoteEnvironment.select"
    /\ timeoutCtxDone
    /\ waitResult' = "timeout waiting for remote environment"
    /\ FailStep("waitForRemoteEnvironment", resources)
    /\ cloudUnchanged /\ goroutineUnchanged
    /\ UNCHANGED <<mode, exited, poll>>
    /\ timeUnchanged /\ vmUnchanged
    /\ UNCHANGED <<scriptVars, pureVars>>

\* The two tests for success, made before the test for failure.
Ready(text) ==
    \/ {"Environment setup completed.", "environment_ready.flag"} \subseteq text
    \/ "Full workflow completed successfully" \in text

\* strings.Contains(output, "ERROR") || strings.Contains(output, "Failed")
SetupFailed(text) == "ERROR" \in text \/ "Failed" \in text

\* select, case <-ticker.C: read the console; a failed read goes round the loop.
waitSelectTick ==
    /\ pc = "waitForRemoteEnvironment.select"
    /\ tick
    /\ tick' = FALSE
    /\ \E ok \in BOOLEAN :
         /\ CanRead(ok)
         /\ poll' = Polled(ok, console)
         /\ CASE ok /\ Ready(console) ->
                   /\ waitResult' = "nil"
                   /\ Continue("executeRemoteImageProcessing")
              [] ok /\ ~Ready(console) /\ SetupFailed(console) ->
                   /\ waitResult' = "remote environment setup failed"
                   /\ FailStep("waitForRemoteEnvironment", resources)
              [] OTHER ->
                   /\ waitResult' = waitResult
                   /\ Continue("waitForRemoteEnvironment.select")
    /\ cloudUnchanged /\ goroutineUnchanged
    /\ UNCHANGED <<mode, exited, ctxDone, timerDone>>
    /\ vmUnchanged
    /\ UNCHANGED <<scriptVars, pureVars>>

\* executeRemoteImageProcessing: one console read, which must work and hold
\* "Unpacking is completed.".
executeRemoteImageProcessing ==
    /\ pc = "executeRemoteImageProcessing"
    /\ \E ok \in BOOLEAN :
         /\ CanRead(ok)
         /\ poll' = Polled(ok, console)
         /\ IF ok /\ "Unpacking is completed." \in console
              THEN Continue("executeRemote.DetachDisk")
              ELSE FailStep("executeRemoteImageProcessing", resources)
    /\ cloudUnchanged /\ goroutineUnchanged
    /\ UNCHANGED <<mode, exited, waitResult>>
    /\ timeUnchanged /\ vmUnchanged
    /\ UNCHANGED <<scriptVars, pureVars>>

orchestratorUnchanged == UNCHANGED <<wfVars, poll, waitResult>>

\* The ticker of the wait in progress fires.
tickerFires ==
    /\ pc \in {"waitForVMRunning", "waitForRemoteEnvironment.select"}
    /\ ~tick
    /\ tick' = TRUE
    /\ orchestratorUnchanged /\ vmUnchanged
    /\ UNCHANGED <<ctxDone, timerDone>>
    /\ UNCHANGED <<scriptVars, pureVars>>

\* The timer of the wait in progress expires: time.After(5 * time.Minute) of
\* waitForVMRunning, w.config.Timeout of timeoutCtx.
timerFires ==
    /\ pc \in {"waitForVMRunning", "waitForRemoteEnvironment.Sleep",
               "waitForRemoteEnvironment.select"}
    /\ ~timerDone
    /\ timerDone' = TRUE
    /\ orchestratorUnchanged /\ vmUnchanged
    /\ UNCHANGED <<ctxDone, tick>>
    /\ UNCHANGED <<scriptVars, pureVars>>

\* The deadline main gave the workflow context expires during a wait.  (When it
\* expires elsewhere the API call in progress fails, which is that step's failure.)
ctxExpires ==
    /\ pc \in BlockingWaits
    /\ ~ctxDone
    /\ ctxDone' = TRUE
    /\ orchestratorUnchanged /\ vmUnchanged
    /\ UNCHANGED <<timerDone, tick>>
    /\ UNCHANGED <<scriptVars, pureVars>>

vmRest == UNCHANGED <<wfVars, scriptVars, pureVars, ctxDone, timerDone, tick, poll, waitResult>>

\* The startup script up to "Environment setup completed.": setup and
\* setup-containerd under set -e, which ends the script without a word.
vmSetup ==
    /\ cloudVM = "present"
    /\ vmpc = "off"
    /\ \E ok \in BOOLEAN :
         IF ok THEN /\ console' = console \cup {"Environment setup completed."}
                    /\ vmpc' = "waitDisk"
               ELSE /\ console' = console
                    /\ vmpc' = "dead"
    /\ vmRest

\* for i in {1..60}: the disk is there, or "ERROR: Disk not attached within
\* timeout period" and exit 1.
vmWaitDisk ==
    /\ cloudVM = "present"
    /\ vmpc = "waitDisk"
    /\ IF attached
         THEN /\ vmpc' = "full-workflow"
              /\ console' = console
         ELSE /\ vmpc' = "dead"
              /\ console' = console \cup {"ERROR"}
    /\ vmRest

\* setup-and-verify.sh full-workflow.  Where set -e applies to "((current++))"
\* pull_images ends the script in its first turn, without a word.  Elsewhere the
\* script may warn "Failed to get mount point ... Retries left" and go on, end with
\* an [ERROR] "Failed to ..." line, or get to "Unpacking is completed.".
vmFullWorkflow ==
    /\ cloudVM = "present"
    /\ vmpc = "full-workflow"
    /\ \E out \in {"silent", "error", "warn", "ok"} :
         /\ arithErrexit => out \in {"silent", "error"}
         /\ out = "warn" => "Failed" \notin console
         /\ vmpc' = CASE out = "warn" -> "full-workflow"
                      [] out = "ok"   -> "unpacked"
                      [] OTHER        -> "dead"
         /\ console' = CASE out = "warn"  -> console \cup {"Failed"}
                         [] out = "ok"    -> console \cup {"Unpacking is completed."}
                         [] out = "error" -> console \cup {"ERROR", "Failed"}
                         [] OTHER         -> console
    /\ vmRest

\* log_success "Full workflow completed successfully", and the same from the
\* startup script.
vmFinish ==
    /\ cloudVM = "present"
    /\ vmpc = "unpacked"
    /\ vmpc' = "done"
    /\ console' = console \cup {"Full workflow completed successfully"}
    /\ vmRest

\* The serial port is also the console of the kernel and of the services of the
\* VM: a line with "FAILED" from one of them.
vmOtherOutput ==
    /\ cloudVM = "present"
    /\ vmpc \notin {"off", "dead", "done"}
    /\ "FAILED" \notin console
    /\ console' = console \cup {"FAILED"}
    /\ UNCHANGED vmpc
    /\ vmRest

InitWaits ==
    /\ ctxDone = FALSE
    /\ timerDone = FALSE
    /\ tick = FALSE
    /\ poll = NoPoll
    /\ waitResult = "none"
    /\ vmpc = "off"
    /\ console = {}

\* ---- the checksum pipeline on its own ----

CopyNames == {"a", "b"}

NoSum == <<>>

\* local checksum=$(find ... | md5sum | cut -d' ' -f1) over one copy of a directory.
snapshot_checksum(c) ==
    /\ copies[c].sum = NoSum
    /\ copies' = [copies EXCEPT ![c].sum = ChecksumOf(copies[c].tree, copies[c].order)]
    /\ UNCHANGED fnVars
    /\ UNCHANGED <<wfVars, scriptVars, remoteVars>>

NoCopies == [c \in CopyNames |-> [tree |-> EmptyDir, order |-> [f \in Files |-> f], sum |-> NoSum]]

\* ---- pull_images on one reference, and the device resolution, on their own ----

MaxCalls == 2

\* What image references are made of.  A reference is the sequence of its words and
\* separators: nginx:1.21 is <<"nginx", ":", "1", ".", "21">>.
Hosts == {<<>>, <<"docker", ".", "io">>, <<"gcr", ".", "io">>,
          <<"us-docker", ".", "pkg", ".", "dev">>, <<"quay", ".", "io">>}

Orgs == {<<>>, <<"myuser">>}

Tags == {<<>>, <<":", "latest">>, <<":", "1", ".", "21">>, <<"@", "sha256", ":", "0a1b">>}

Reference(host, org, tag) ==
    (IF host = <<>> THEN <<>> ELSE host \o <<"/">>)
    \o (IF org = <<>> THEN <<>> ELSE org \o <<"/">>)
    \o <<"myapp">> \o tag

References == {Reference(h, o, t) : h \in Hosts, o \in Orgs, t \in Tags}

\* [[ "$image" == *"<sep>"* ]]: the separator occurs somewhere in the reference.
GlobMatch(ref, sep) == \E i \in 1..Len(ref) : ref[i] = sep

\* local full_image_name="$image", and the prefix put in front of it.
full_image_name(ref) ==
    IF ~GlobMatch(ref, ".")
      THEN IF ~GlobMatch(ref, "/")
             THEN <<"docker", ".", "io", "/", "library", "/">> \o ref
             ELSE <<"docker", ".", "io", "/">> \o ref
      ELSE ref

\* strings.Contains
Contains(s, substr) ==
    \E i \in 0..(Len(s) - Len(substr)) : SubSeq(s, i + 1, i + Len(substr)) = substr

gcpRegistries == {<<"gcr", ".", "io">>, <<"us", ".", "gcr", ".", "io">>,
                  <<"eu", ".", "gcr", ".", "io">>, <<"asia", ".", "gcr", ".", "io">>,
                  <<"pkg", ".", "dev">>, <<"us-docker", ".", "pkg", ".", "dev">>,
                  <<"eu-docker", ".", "pkg", ".", "dev">>,
                  <<"asia-docker", ".", "pkg", ".", "dev">>}

isGCPRegistry(registry) == \E gcpReg \in gcpRegistries : Contains(registry, gcpReg)

NoPull == [cmd |-> "none", name |-> <<>>, user |-> <<>>]

\* One iteration of "for image in ${images[@]}" up to the command it runs:
\* full_image_name, then ctr image pull without --user, or with the token as
\* --user, or exit 1 for any other mechanism.
image_pull ==
    /\ pulled = NoPull
    /\ pulled' =
         CASE mechanism = "none" ->
                [cmd |-> "ctr image pull", name |-> full_image_name(image), user |-> <<>>]
           [] mechanism = "serviceaccounttoken" ->
                [cmd |-> "ctr image pull", name |-> full_image_name(image),
                 user |-> <<"oauth2accesstoken", "ACCESS_TOKEN">>]
           [] OTHER ->
                [cmd |-> "exit 1", name |-> <<>>, user |-> <<>>]
    /\ UNCHANGED <<copies, image, mechanism, part1, whole, resolved>>
    /\ UNCHANGED <<wfVars, scriptVars, remoteVars>>

\* What a path below /dev/disk/by-id can be: nothing ([[ -e ]] fails), a block
\* device ([ -b ] holds), or something that exists and is no block device.
PathKinds == {"absent", "block", "other"}

\* DEVICE_NODE="/dev/disk/by-id/google-${device_name}"; -part1 is appended when
\* [[ -e "$DEVICE_NODE-part1" ]]; exit 1 unless [ -b "$DEVICE_NODE" ].
DEVICE_NODE(p1, w) ==
    LET node == IF p1 # "absent" THEN "part1" ELSE "whole"
        kind == IF node = "part1" THEN p1 ELSE w
    IN IF kind = "block" THEN node ELSE "exit 1"

\* prepare_disk_operations up to the end of its device check.
resolve_device ==
    /\ Len(resolved) < MaxCalls
    /\ resolved' = Append(resolved, DEVICE_NODE(part1, whole))
    /\ UNCHANGED <<copies, image, mechanism, pulled, part1, whole>>
    /\ UNCHANGED <<wfVars, scriptVars, remoteVars>>

NoFunctionCalls ==
    /\ image = <<>>
    /\ mechanism = "none"
    /\ pulled = NoPull
    /\ part1 = "absent"
    /\ whole = "absent"
    /\ resolved = <<>>

InitWorkflow ==
    /\ pc = "validatePrerequisites"
    /\ result = "running"
    /\ failedStep = "none"
    /\ resources = [ptr |-> "unset", CacheDisk |-> FALSE, VMInstance |-> FALSE]
    /\ cloudDisk = "absent"
    /\ cloudVM = "absent"
    /\ requests = [CreateDisk |-> 0, CreateVM |-> 0, AttachDisk |-> 0, CreateImage |-> 0]
    /\ attached = FALSE
    /\ imageCreated = FALSE
    /\ scheduled = 0
    /\ delay = 0
    /\ cleanupPc = "none"
    /\ cleanupRuns = 0
    /\ deleteCalls = [vm |-> 0, disk |-> 0, detach |-> 0, dead |-> 0]
    /\ cleanupErrors = 0
    /\ exited = "running"

\* No script process has run: nothing is mounted and no file exists.
InitProcess ==
    /\ mounted = FALSE
    /\ fs = EmptyFS
    /\ spc = "idle"
    /\ smode = "none"
    /\ sauth = "none"
    /\ sstore = FALSE
    /\ current = 0
    /\ snapshots = <<>>
    /\ retries = 0
    /\ attempts = 0
    /\ pullLog = <<>>
    /\ exitStatus = "none"
    /\ failPoint = "none"
    /\ marker = FALSE
    /\ vVerified = <<>>
    /\ vMismatched = <<>>
    /\ prev = <<"none", "none">>
    /\ pulls = 0
    /\ corruptions = 0

NextWorkflow ==
    \/ validatePrerequisites
    \/ handleExistingImages
    \/ CreateDisk
    \/ CreateVM
    \/ GetCurrentInstanceMetadata
    \/ AttachDisk
    \/ executeLocalMode
    \/ executeRemoteMode
    \/ DetachDisk
    \/ createCacheImage
    \/ verifyCacheImage
    \/ executeSuccess
    \/ cleanupWake
    \/ cleanupDeleteVM
    \/ cleanupDetachDisk
    \/ cleanupDeleteDisk
    \/ mainExit

NextScript ==
    \/ prepare_disk_operations
    \/ pull_and_process_images
    \/ pull_images
    \/ write_image_metadata
    \/ process_snapshots
    \/ snapshot_view
    \/ snapshot_copy
    \/ finish_pull_and_process
    \/ verify_disk_image
    \/ mountDisk
    \/ corruptFile

\* The orchestrator.  The script's state stays as before any script has run.
Init ==
    /\ mode \in {"local", "remote"}
    /\ InitWorkflow
    /\ arithErrexit = TRUE
    /\ images = <<>>
    /\ badImage = 0
    /\ rtCommitted = 0
    /\ InitProcess
    /\ copies = NoCopies
    /\ NoFunctionCalls
    /\ InitWaits

Next == NextWorkflow

Spec == Init /\ [][Next]_vars

\* The script.  The image list, the registry, the runtime's store and the bash
\* that runs the script are the environment's choice.
InitScript ==
    /\ mode = "local"
    /\ InitWorkflow
    /\ arithErrexit \in BOOLEAN
    /\ \E n \in 0..MaxImages :
         /\ images = [k \in 1..n |-> k]
         /\ badImage \in 0..n
    /\ rtCommitted \in 0..MaxSnapshots
    /\ InitProcess
    /\ copies = NoCopies
    /\ NoFunctionCalls
    /\ InitWaits

SpecScript == InitScript /\ [][NextScript]_vars

\* The script run again and again on the same VM: prepare-disk and pull-images
\* processes in any order, a pull-images process after one that failed or ended.
MaxReruns == 2

NextRerun ==
    \/ prepare_disk_operations
    \/ pull_and_process_imagesUpTo(MaxReruns)
    \/ pull_images
    \/ write_image_metadata
    \/ process_snapshots
    \/ snapshot_view
    \/ snapshot_copy
    \/ finish_pull_and_process
    \/ mountDisk

SpecRerun == InitScript /\ [][NextRerun]_vars

\* The checksum pipeline applied to two copies of a directory, each with its own
\* files and its own directory order.
InitChecksum ==
    /\ mode = "local"
    /\ InitWorkflow
    /\ arithErrexit = TRUE
    /\ images = <<>>
    /\ badImage = 0
    /\ rtCommitted = 0
    /\ InitProcess
    /\ copies \in [CopyNames -> {[tree |-> t, order |-> o, sum |-> NoSum] :
                                    t \in Trees, o \in Orders}]
    /\ NoFunctionCalls
    /\ InitWaits

NextChecksum == \E c \in CopyNames : snapshot_checksum(c)

SpecChecksum == InitChecksum /\ [][NextChecksum]_vars

\* pull_images for one reference under one mechanism, and the device resolution
\* for one state of the two device paths.
InitFunctions ==
    /\ mode = "local"
    /\ InitWorkflow
    /\ arithErrexit = TRUE
    /\ images = <<>>
    /\ badImage = 0
    /\ rtCommitted = 0
    /\ InitProcess
    /\ copies = NoCopies
    /\ image \in References
    /\ mechanism \in AuthMechanisms
    /\ pulled = NoPull
    /\ part1 \in PathKinds
    /\ whole \in PathKinds
    /\ resolved = <<>>
    /\ InitWaits

NextFunctions ==
    \/ image_pull
    \/ resolve_device

SpecFunctions == InitFunctions /\ [][NextFunctions]_vars

\* Remote mode with CreateVM and executeRemoteMode in steps.  The shell of the VM
\* applies set -e to "((current++))" or does not.
InitRemote ==
    /\ mode = "remote"
    /\ InitWorkflow
    /\ arithErrexit \in BOOLEAN
    /\ images = <<1>>
    /\ badImage = 0
    /\ rtCommitted = 0
    /\ InitProcess
    /\ copies = NoCopies
    /\ NoFunctionCalls
    /\ InitWaits

NextRemote ==
    \/ validatePrerequisites
    \/ CreateDisk
    \/ InstancesInsert
    \/ WaitForOperation
    \/ waitForVMRunningTimeout
    \/ waitForVMRunningTick
    \/ AttachDisk
    \/ waitForRemoteEnvironment
    \/ SleepReturns
    \/ waitSelectTimeout
    \/ waitSelectTick
    \/ executeRemoteImageProcessing
    \/ DetachDisk
    \/ createCacheImage
    \/ verifyCacheImage
    \/ executeSuccess
    \/ cleanupWake
    \/ cleanupDeleteVM
    \/ cleanupDetachDisk
    \/ cleanupDeleteDisk
    \/ mainExit
    \/ tickerFires
    \/ timerFires
    \/ ctxExpires
    \/ vmSetup
    \/ vmWaitDisk
    \/ vmFullWorkflow
    \/ vmFinish
    \/ vmOtherOutput

SpecRemote == InitRemote /\ [][NextRemote]_vars

\* Time passes, the select of the readiness wait takes a case that is ready, and
\* the VM runs on.
SpecRemoteFair ==
    /\ SpecRemote
    /\ WF_vars(SleepReturns)
    /\ WF_vars(timerFires)
    /\ WF_vars(waitSelectTimeout)

----------------------------------------------------------------------------
(* Properties of the orchestrator (checked under Spec)                     *)

\* The disks and VMs the build created and no cleanup has asked to delete.
Undeleted ==
    {r \in {"disk", "vm"} :
        /\ (IF r = "disk" THEN cloudDisk ELSE cloudVM) # "absent"
        /\ deleteCalls[r] = 0}

\* C1: whatever step of Execute failed, once the cleanup that failure scheduled is
\* over, cleanup has been scheduled exactly once and DeleteDisk / DeleteVM has been
\* called for every disk and VM that had been created.
CleanupAlwaysRuns ==
    (failedStep # "none" /\ cleanupPc = "done") => (scheduled = 1 /\ Undeleted = {})

\* C2: when setupEnvironment fails after CreateDisk succeeded, the cleanup that the
\* failure triggers calls DeleteDisk for the disk, and DeleteVM for the VM when
\* CreateVM had succeeded.
PartialProvisioningCleanedUp ==
    (/\ failedStep \in {"GetCurrentInstanceMetadata", "CreateVM", "AttachDisk"}
     /\ cleanupPc = "done")
    => (deleteCalls.disk >= 1 /\ (cloudVM # "absent" => deleteCalls.vm >= 1))

\* C3: when the CLI process has ended, no disk or VM that the build created is left
\* without its delete having been issued.
NoLeakAtExit ==
    exited # "running" =>
        /\ (cloudDisk = "present" => deleteCalls.disk >= 1)
        /\ (cloudVM = "present" => deleteCalls.vm >= 1)

\* C4: the value Execute returned is nil after a build whose steps all succeeded and
\* otherwise the error of the failed step under that step's name; the errors
\* of cleanup never change it.
ExecuteReturnsStepError ==
    /\ pc = "returned" => result = StepOf(failedStep)
    /\ pc # "returned" => (result = "running" /\ failedStep = "none")

\* C4, its case: Execute returned a step's error, cleanup ran to its end and some
\* of its calls failed.
CleanupFailedAfterStepError ==
    /\ pc = "returned"
    /\ result = "cache image creation failed"
    /\ cleanupPc = "done"
    /\ cleanupErrors >= 2
    /\ cloudDisk = "present"

\* The Integrity Verifier ran and passed: a verify-image process ended with
\* status 0 and no mismatch.
VerifierPassed ==
    /\ smode = "verify-image"
    /\ exitStatus = "0"
    /\ vMismatched = <<>>

\* C9: Execute returns nil only if verify_disk_image was run against the produced
\* disk and found neither a mismatch nor a missing checksum.
SuccessOnlyAfterVerifier == result = "nil" => VerifierPassed

----------------------------------------------------------------------------
(* Properties of the script (checked under SpecScript)                     *)

\* No script process is running and the last one ran in mode m.
Ended(m) == spc = "idle" /\ smode = m

\* C5: the view-and-mount step of process_snapshots makes at most 5 attempts for a
\* snapshot, and extraction gives up on a snapshot only when 5 attempts have
\* failed: with fewer failures the next attempt is made and, when it yields a
\* mount path, the snapshot is extracted.
RetryBound ==
    /\ attempts <= RetriesInit
    /\ (/\ Ended("pull-images")
        /\ failPoint \in {"process_snapshots: ((current++))", "ctr snapshot view",
                          "Failed to process snapshot"})
       => attempts = RetriesInit

\* The images whose pull the process ran / ran with success.
Pulled == {pullLog[k][1] : k \in 1..Len(pullLog)}

PulledOk == {pullLog[k][1] : k \in {j \in 1..Len(pullLog) : pullLog[j][2]}}

\* C6: when image M is the first one the registry refuses, a pull-images process
\* that gets to pulling ends with exactly images 1..M-1 pulled with success, no
\* pull run for an image after M, and a failure status.
AllOrNothingPulling ==
    (/\ Ended("pull-images")
     /\ failPoint \notin {"setup_authentication", "pull_images: unknown OAuth mechanism"}
     /\ badImage >= 1)
    => (/\ PulledOk = 1..(badImage - 1)
        /\ Pulled \subseteq 1..badImage
        /\ exitStatus = "1")

\* The chain ids of the written records that satisfy Test, in the order written.
ChainsOf(records, Test(_)) ==
    LET sel == SelectSeq(records, Test) IN [k \in 1..Len(sel) |-> sel[k].chain]

\* The content under the record's path is what it was when the record was written.
Intact(r) == fs.trees[r.path] = r.tree

Damage(r) == ~Intact(r)

AllRecords(r) == TRUE

\* verify_disk_image ran to its end against the mounted disk, whose metadata
\* file exists and whose records all carry a checksum.
VerifiedChecksummedDisk ==
    /\ Ended("verify-image")
    /\ failPoint # "Cannot mount disk for verification"
    /\ fs.metaExists
    /\ \A k \in 1..Len(fs.written) : fs.written[k].stored

\* C7: verify_disk_image run on the unmodified disk reads back, for every record
\* process_snapshots wrote with checksum storage on, the chain id and the checksum
\* written, recomputes an equal checksum over the record's path, reports no mismatch
\* and succeeds.
MetadataRoundTrip ==
    (VerifiedChecksummedDisk /\ corruptions = 0)
    => (/\ Len(fs.snapMeta) = Len(fs.written)
        /\ \A k \in 1..Len(fs.written) :
             /\ Field(fs.snapMeta[k], 1) = fs.written[k].chain
             /\ Field(fs.snapMeta[k], 3) = fs.written[k].checksum
             /\ Checksum(DirAt(fs.trees, Field(fs.snapMeta[k], 2))) = fs.written[k].checksum
        /\ vVerified = ChainsOf(fs.written, AllRecords)
        /\ vMismatched = <<>>
        /\ exitStatus = "0")

\* C7, its case: a verification of an unmodified disk with all its records.
RoundTripVerified ==
    /\ VerifiedChecksummedDisk
    /\ corruptions = 0
    /\ Len(fs.written) = MaxSnapshots
    /\ Len(vVerified) = MaxSnapshots
    /\ exitStatus = "0"

\* The paths of the records whose content was changed after the build.
DamagedPaths == {fs.written[k].path : k \in {j \in 1..Len(fs.written) : Damage(fs.written[j])}}

\* C8: when the content under exactly one record's path was changed after the
\* build, verify_disk_image checks every record: it reports a mismatch for the chain
\* id recorded for that path, reports every other record verified, and fails.
MismatchNotShortCircuited ==
    (VerifiedChecksummedDisk /\ Cardinality(DamagedPaths) = 1)
    => (/\ vMismatched = ChainsOf(fs.written, Damage)
        /\ vVerified = ChainsOf(fs.written, Intact)
        /\ Len(vMismatched) + Len(vVerified) = Len(fs.written)
        /\ exitStatus = "1"
        /\ failPoint = "checksum mismatch detected")

\* C8, its case: the first record's content was changed, a later record is intact
\* and was still reported verified.
MismatchThenVerified ==
    /\ VerifiedChecksummedDisk
    /\ Cardinality(DamagedPaths) = 1
    /\ Len(fs.written) >= 2
    /\ Damage(fs.written[1])
    /\ vMismatched = <<fs.written[1].chain>>
    /\ vVerified = <<fs.written[Len(fs.written)].chain>>

\* The last two script processes were a successful prepare-disk and then a
\* successful pull-images.
PreparedThenPulled ==
    /\ Ended("pull-images")
    /\ exitStatus = "0"
    /\ prev = <<"prepare-disk", "0">>

\* C10: after prepare-disk and then a successful pull-images process in which the
\* runtime listed K committed snapshots, snapshots.metadata has exactly K lines, the
\* i-th of them for the i-th snapshot listed.
OneLinePerSnapshot ==
    PreparedThenPulled
    => (/\ Len(fs.snapMeta) = Len(snapshots)
        /\ \A i \in 1..Len(snapshots) : Field(fs.snapMeta[i], 1) = snapshots[i])

\* C10, its case: the runtime listed as many snapshots as the model allows.
AllSnapshotsRecorded ==
    /\ PreparedThenPulled
    /\ Len(snapshots) = MaxSnapshots
    /\ Len(fs.snapMeta) = MaxSnapshots

\* verify_disk_image got as far as reading snapshots.metadata on the mounted disk.
ReadMetadata ==
    /\ Ended("verify-image")
    /\ failPoint # "Cannot mount disk for verification"
    /\ fs.metaExists

\* The records of snapshots.metadata that carry no checksum field.
WithoutChecksum ==
    {k \in 1..Len(fs.snapMeta) : fs.snapMeta[k] # <<>> /\ Field(fs.snapMeta[k], 3) = <<>>}

\* C11: when a record of snapshots.metadata has no checksum field, verify_disk_image
\* ends with the missing-checksum error at the first such record (the records before
\* it were compared, none after it) and with a failure status.
MissingChecksumFails ==
    (ReadMetadata /\ WithoutChecksum # {})
    => (/\ exitStatus = "1"
        /\ failPoint = "Expected checksums not found"
        /\ \E first \in WithoutChecksum :
             /\ \A k \in WithoutChecksum : first <= k
             /\ Len(vVerified) + Len(vMismatched) = first - 1)

\* C11, its case: a disk extracted with checksum storage off was verified.
VerifiedWithoutChecksums ==
    /\ ReadMetadata
    /\ Len(fs.written) = MaxSnapshots
    /\ \A k \in 1..Len(fs.written) : ~fs.written[k].stored
    /\ failPoint = "Expected checksums not found"

\* The checksum pipeline ran over both copies.
BothSummed == \A c \in CopyNames : copies[c].sum # NoSum

\* The files whose content is not the same in the two copies.
Differing == {f \in Files : copies["a"].tree[f] # copies["b"].tree[f]}

\* C12: two copies of a directory that hold the same files with the same contents
\* have the same checksum, whatever order find lists the files of each in.
ChecksumOrderInvariant ==
    (BothSummed /\ copies["a"].tree = copies["b"].tree)
    => copies["a"].sum = copies["b"].sum

\* C12, its case: the copies hold the same files, at least two of them with
\* different contents, and find listed them in different orders.
SameFilesOtherOrder ==
    /\ BothSummed
    /\ copies["a"].tree = copies["b"].tree
    /\ copies["a"].order # copies["b"].order
    /\ \E f, g \in Files :
         /\ copies["a"].tree[f] # 0
         /\ copies["a"].tree[g] # 0
         /\ copies["a"].tree[f] # copies["a"].tree[g]
    /\ copies["a"].sum = copies["b"].sum

\* C13: two copies of a directory that differ in the content of exactly one regular
\* file have different checksums.
ChecksumContentSensitive ==
    (/\ BothSummed
     /\ Cardinality(Differing) = 1
     /\ \A f \in Differing : copies["a"].tree[f] # 0 /\ copies["b"].tree[f] # 0)
    => copies["a"].sum # copies["b"].sum

\* C13, its case: every file is there in both copies, one of them was changed to
\* the content another file of the directory has, and find listed the two copies in
\* different orders.
OneFileChanged ==
    /\ BothSummed
    /\ Cardinality(Differing) = 1
    /\ \A f \in Files : copies["a"].tree[f] # 0 /\ copies["b"].tree[f] # 0
    /\ \E f \in Differing, g \in Files \ Differing :
         copies["b"].tree[f] = copies["b"].tree[g]
    /\ copies["a"].order # copies["b"].order
    /\ copies["a"].sum # copies["b"].sum

\* C15: when validatePrerequisites fails, Execute returns its error with no disk
\* and no VM created and nothing attached, and the cleanup deletes nothing.
ValidationFailsFast ==
    failedStep = "validatePrerequisites"
    => (/\ pc = "returned"
        /\ result = "prerequisite validation failed"
        /\ cloudDisk = "absent"
        /\ cloudVM = "absent"
        /\ ~attached
        /\ ~imageCreated
        /\ deleteCalls = [vm |-> 0, disk |-> 0, detach |-> 0, dead |-> 0])

\* C15, its case: validation failed, the cleanup goroutine woke up and found
\* nothing to do.
ValidationFailed ==
    /\ failedStep = "validatePrerequisites"
    /\ cleanupPc = "done"
    /\ cleanupRuns = 0

\* Execute got as far as its call of createCacheImage.
CreateImageReached ==
    \/ pc \in {"createCacheImage", "verifyCacheImage"}
    \/ imageCreated
    \/ failedStep \in {"createCacheImage", "verifyCacheImage"}

\* C16: createCacheImage is reached only with the disk detached by the DetachDisk
\* that ends the mode's execution, and not at all when the execution or that
\* DetachDisk failed.
ImageOnlyFromDetachedDisk ==
    /\ CreateImageReached => ~attached
    /\ StepOf(failedStep) \in {"local mode execution failed",
                               "remote mode execution failed"}
       => ~CreateImageReached

\* C16, its case: the image was created in remote mode.
ImageCreatedRemotely ==
    /\ IsRemoteMode
    /\ imageCreated
    /\ ~attached

\* waitForRemoteEnvironment is in progress.
InRemoteWait == pc \in {"waitForRemoteEnvironment.Sleep", "waitForRemoteEnvironment.select"}

\* C14: waitForRemoteEnvironment, once entered, returns, and with one of three
\* results: nil after a read that showed a success marker, the setup-failed error
\* after a read that showed a failure marker, or the timeout error, a different
\* one, and that only once timeoutCtx is done.  This also when no read works.
RemoteWaitTerminates ==
    /\ InRemoteWait ~> (~InRemoteWait /\ waitResult # "none")
    /\ [](InRemoteWait => waitResult = "none")
    /\ [](waitResult = "nil" => (~InRemoteWait /\ failedStep # "waitForRemoteEnvironment"))
    /\ [](waitResult = "timeout waiting for remote environment"
            => (timeoutCtxDone /\ failedStep = "waitForRemoteEnvironment"))
    /\ [](waitResult = "remote environment setup failed"
            => (/\ failedStep = "waitForRemoteEnvironment"
                /\ ~poll.err
                /\ SetupFailed(poll.text)))

\* C14, its case: every console read of the wait failed and the wait returned the
\* timeout error.
TimedOutWithoutARead ==
    /\ waitResult = "timeout waiting for remote environment"
    /\ poll.n = MaxReads
    /\ poll.errs = MaxReads
    /\ ~ctxDone

\* The run on the VM warned about a mount point, went on and got to its end.
RecoveredRun ==
    /\ vmpc = "done"
    /\ "Failed" \in console
    /\ "ERROR" \notin console

Detached ==
    \/ pc \in {"createCacheImage", "verifyCacheImage", "success"}
    \/ imageCreated
    \/ result = "nil"

CancellationStopsWaits ==
    [][(ctxDone /\ pc \in BlockingWaits /\ (pc' # pc \/ poll' # poll))
       => (/\ pc' = "returned"
           /\ result' \notin {"nil", "running"}
           /\ poll' = poll
           /\ scheduled' = scheduled + 1)]_vars

\* C20: the readiness wait is never still waiting after a poll whose text has
\* "ERROR" or "FAILED" and no success marker.
FailureMarkerEndsWait ==
    ~(/\ pc = "waitForRemoteEnvironment.select"
      /\ poll.n > 0
      /\ ~poll.err
      /\ ("ERROR" \in poll.text \/ "FAILED" \in poll.text)
      /\ ~Ready(poll.text)
      /\ "Unpacking is completed." \notin poll.text)

\* C21: a process never ends at a failed "ctr snapshot view" while attempts are
\* left for the snapshot: the view is discarded and the next attempt is made.
ViewFailureRetried ==
    ~(/\ spc = "idle"
      /\ smode \in {"pull-images", "full-workflow"}
      /\ failPoint = "ctr snapshot view"
      /\ attempts < RetriesInit)


\* What precedes the first slash of a reference; the whole of it without a slash.
FirstSegment(ref) ==
    LET slashes == {i \in 1..Len(ref) : ref[i] = "/"}
    IN IF slashes = {} THEN ref
       ELSE SubSeq(ref, 1, (CHOOSE i \in slashes : \A j \in slashes : i <= j) - 1)

\* C22: under the ServiceAccountToken mechanism a pull from a registry that is not
\* a known cloud registry is run without any credential.
BearerTokenScoped ==
    (/\ pulled.cmd = "ctr image pull"
     /\ mechanism = "serviceaccounttoken"
     /\ ~isGCPRegistry(FirstSegment(pulled.name)))
    => pulled.user = <<>>

\* C23: the name pulled is docker.io/library/<ref> for a reference without a slash,
\* docker.io/<ref> for one with a slash and no dot before the first slash, and the
\* reference itself for one with a dot before its first slash, wherever else the
\* reference has dots.
NormalisedByFirstSegment ==
    pulled.cmd = "ctr image pull"
    => pulled.name =
         (IF ~GlobMatch(image, "/")
            THEN <<"docker", ".", "io", "/", "library", "/">> \o image
          ELSE IF ~GlobMatch(FirstSegment(image), ".")
            THEN <<"docker", ".", "io", "/">> \o image
          ELSE image)


\* Copy b holds the files of copy a with the same contents under other names: a
\* regular file was renamed or moved, no content changed.
RenamedWithin ==
    /\ copies["a"].tree # copies["b"].tree
    /\ \E f \in Files : copies["a"].tree[f] # 0
    /\ \E to \in Orders : \A f \in Files : copies["b"].tree[to[f]] = copies["a"].tree[f]

\* C24: renaming or moving a regular file within a tree, the contents unchanged,
\* changes the checksum computed for the tree.
ChecksumStructureSensitive ==
    (BothSummed /\ RenamedWithin) => copies["a"].sum # copies["b"].sum


\* C25: cleanup that follows a successful build is scheduled without a delay; a
\* delay before the deletes is given only to cleanup that follows a failed step.
TeardownImmediateOnSuccess ==
    (scheduled > 0 /\ delay > 0) => failedStep # "none"


\* C26: no chain id is on two lines of snapshots.metadata, whatever prepare-disk
\* and pull-images processes have run against the mount point.
ChainIdUnique ==
    \A i, j \in 1..Len(fs.snapMeta) :
        Field(fs.snapMeta[i], 1) = Field(fs.snapMeta[j], 1) => i = j


\* C27: every line of snapshots.metadata was appended after the copy of its
\* snapshot's tree had completed: its path is a directory on the disk, and when
\* the line was written that directory held every file of the snapshot.
RecordedAfterCopy ==
    /\ Len(fs.written) = Len(fs.snapMeta)
    /\ \A k \in 1..Len(fs.snapMeta) :
         LET line == fs.snapMeta[k]
             rec  == fs.written[k]
         IN /\ Field(line, 1) = rec.chain
            /\ Field(line, 2) = rec.path
            /\ DirAt(fs.trees, Field(line, 2)) # NoDir
            /\ \A f \in Files :
                 TreeOf(rec.chain)[f] # 0 => rec.tree[f] = TreeOf(rec.chain)[f]

\* C27, its case: a process recorded one snapshot and ended at the failed copy of
\* the next, whose directory is there, partly filled or empty, without a line.
CopyFailedUnrecorded ==
    /\ spc = "idle"
    /\ failPoint = "cp -r -p"
    /\ mounted
    /\ Len(fs.snapMeta) = 1
    /\ \E p \in Paths :
         /\ fs.trees[p] # NoDir
         /\ \A k \in 1..Len(fs.snapMeta) : Field(fs.snapMeta[k], 2) # p


\* C28: the step that prints "Unpacking is completed." leaves the disk unmounted,
\* every image of the list pulled with success, and a line in snapshots.metadata
\* for every committed snapshot the runtime listed; the disk was mounted while the
\* lines were written.
MarkerAfterUnmount ==
    [][(marker' /\ ~marker)
       => (/\ mounted
           /\ ~mounted'
           /\ PulledOk' = 1..Len(images')
           /\ Len(snapshots') = rtCommitted'
           /\ \A c \in 1..rtCommitted' :
                \E k \in 1..Len(fs'.snapMeta) : Field(fs'.snapMeta[k], 1) = c)]_vars

\* C28, its case: a process that pulled images and recorded snapshots has printed
\* the marker.
MarkerEmitted ==
    /\ marker
    /\ ~mounted
    /\ Len(images) >= 1
    /\ rtCommitted >= 1
    /\ Len(fs.snapMeta) >= 1
    /\ PulledOk = 1..Len(images)

\* C28, the orchestrator's side: in remote mode Execute gets to its DetachDisk only
\* when the run on the VM is past full-workflow, whose last step before the marker
\* is the umount.
DetachAfterRemoteUnmount ==
    (IsRemoteMode /\ pc = "executeRemote.DetachDisk") => vmpc \in {"unpacked", "done"}


\* C29: a verify-image process that finds the prepared disk not mounted at the
\* mount point mounts it and goes on to the records: it does not end for want of
\* a mount.
VerifyMountsOnDemand ==
    ~(/\ Ended("verify-image")
      /\ fs.metaExists
      /\ failPoint = "Cannot mount disk for verification")


\* C30: the device resolution yields the first-partition path when that path
\* exists and the whole-device path otherwise, fails exactly when neither of the
\* two paths is a block device, and gives the same answer on every call while
\* the two paths stay what they are.
DeviceResolution ==
    \A k \in 1..Len(resolved) :
        /\ resolved[k] = "exit 1" <=> (part1 # "block" /\ whole # "block")
        /\ resolved[k] # "exit 1"
             => resolved[k] = (IF part1 # "absent" THEN "part1" ELSE "whole")
        /\ \A j \in 1..Len(resolved) : resolved[j] = resolved[k]


\* C31: no DeleteVM, DetachDisk or DeleteDisk call of the scheduled cleanup is made
\* with a context that is done, whether or not the workflow context has expired.
CleanupContextLive == deleteCalls.dead = 0

\* C31, its case: the workflow context expired, the step waiting on it failed, and
\* the cleanup that failure scheduled deleted the VM and the disk.
CleanedUpAfterDeadline ==
    /\ ctxDone
    /\ failedStep # "none"
    /\ deleteCalls.vm >= 1
    /\ deleteCalls.disk >= 1
    /\ cloudVM = "deleted"
    /\ cloudDisk = "deleted"


\* C32: in a pull-images process that follows prepare-disk, once a pull has failed
\* no snapshot is processed: snapshots.metadata and images.metadata stay as
\* prepare-disk left them, nothing is copied, and the marker is not printed.
FailedPullLeavesDiskEmpty ==
    (/\ smode = "pull-images"
     /\ prev = <<"prepare-disk", "0">>
     /\ \E k \in 1..Len(pullLog) : ~pullLog[k][2])
    => (/\ fs.snapMeta = <<>>
        /\ fs.imagesMeta = 0
        /\ fs.written = <<>>
        /\ \A p \in Paths : fs.trees[p] = NoDir
        /\ attempts = 0
        /\ ~marker)

\* C32, its case: the process pulled one image, was refused the next and ended
\* there, with committed snapshots of the first image in the runtime's store.
SecondPullRefused ==
    /\ Ended("pull-images")
    /\ prev = <<"prepare-disk", "0">>
    /\ failPoint = "ctr image pull"
    /\ badImage = 2
    /\ PulledOk = {1}
    /\ rtCommitted >= 1
    /\ mounted


\* C33: cleanupResources calls DeleteVM before any detach or DeleteDisk, makes its
\* detach only in local mode and before DeleteDisk, and does not return without a
\* DeleteDisk call for the disk of the build, whatever DeleteVM and the detach
\* returned.
CleanupOrdering ==
    [][/\ deleteCalls'.vm > deleteCalls.vm
            => (deleteCalls.detach = 0 /\ deleteCalls.disk = 0)
       /\ deleteCalls'.detach > deleteCalls.detach
            => (/\ IsLocalMode
                /\ deleteCalls.disk = 0
                /\ resources.VMInstance => deleteCalls.vm >= 1)
       /\ deleteCalls'.disk > deleteCalls.disk
            => (resources.VMInstance => deleteCalls.vm >= 1)
       /\ (/\ cleanupPc \in {"DeleteVM", "DetachDisk", "DeleteDisk"}
           /\ cleanupPc' = "done"
           /\ cloudDisk # "absent")
            => deleteCalls'.disk >= 1]_vars

\* C33, its case: DeleteVM failed, the VM is still there, and the disk was deleted
\* all the same.
DiskDeletedAfterVMDeleteFailed ==
    /\ cleanupPc = "done"
    /\ deleteCalls.vm = 1
    /\ cloudVM = "present"
    /\ deleteCalls.disk = 1
    /\ cloudDisk = "deleted"


PullSingleAttempt ==
    /\ \A j, k \in 1..Len(pullLog) : pullLog[j][1] = pullLog[k][1] => j = k
    /\ \A k \in 1..Len(pullLog) : ~pullLog[k][2] => (k = Len(pullLog) /\ spc = "idle" /\ exitStatus = "1")


\* Most blank lines put into a snapshots.metadata file.
MaxBlankLines == 2

\* A snapshots.metadata of n blank lines.
BlankLines(n) == [k \in 1..n |-> <<>>]

\* C35  verify_disk_image on a snapshots.metadata without records: the loop over an
\* empty file or over blank lines only compares no checksum and notes nothing, and
\* a verify-image process that found the file, empty, ends with status 0 and with
\* no snapshot verified or mismatched.
EmptyMetadataVerifies ==
    /\ \A n \in 0..MaxBlankLines :
         LET none == [verified |-> <<>>, mismatched |-> <<>>, fatal |-> FALSE]
         IN VerifyLines(BlankLines(n), fs.trees, none) = none
    /\ (/\ Ended("verify-image")
        /\ failPoint \notin {"Cannot mount disk for verification",
                             "Snapshots metadata file not found"}
        /\ fs.snapMeta = <<>>)
       => (/\ exitStatus = "0"
           /\ failPoint = "none"
           /\ vVerified = <<>>
           /\ vMismatched = <<>>)

\* verify-image ran on a mounted disk whose snapshots.metadata exists and is empty.
VerifiedEmptyMetadata ==
    /\ Ended("verify-image")
    /\ mounted
    /\ fs.metaExists
    /\ fs.snapMeta = <<>>
    /\ exitStatus = "0"

====
